---- MODULE Spec2Model ----
(***************************************************************************)
(* Model of package cfg (eaglebush/config), the Load revision of           *)
(* src/configuration.go (lines 542-1036): load, Save, Reload and the       *)
(* lookup accessors over a Configuration document.                         *)
(*                                                                         *)
(* Go strings are sequences of one-character strings ("" is <<>>).         *)
(* A Go pointer (and a JSON member that may be missing) is a sequence of    *)
(* length at most one: Nil is <<>>, Ptr(v) is <<v>>.                       *)
(***************************************************************************)
EXTENDS Integers, Sequences, FiniteSets, TLC

\* ------------------------------------------------------------------ bounds
MaxDbs == 2        \* longest Databases list of a lookup document
MaxEps == 2        \* longest APIEndpoints list of a lookup document
MaxNfs == 2        \* longest Notifications list of a lookup document
MaxEdits == 1      \* external changes made to a source during one behaviour
MaxTextLen == 5    \* longest text handed to interpolateEnvVars
MaxFlags == 2      \* longest Flags list of a document
MaxLoadDbs == 1    \* longest Databases list of a default-fill document
MaxLoadNfs == 2    \* longest Notifications list of a default-fill document
MaxDriverDbs == 1  \* longest Databases list of a driver-default document
MaxSectionRecs == 2 \* longest Domains, Sources or OAuths list of a document

\* ----------------------------------------------------------------- pointers
Nil == <<>>
Ptr(v) == <<v>>
Deref(p) == p[1]

\* ------------------------------------------------------------------ strings
UpperLetters == <<"A","B","C","D","E","F","G","H","I","J","K","L","M",
                  "N","O","P","Q","R","S","T","U","V","W","X","Y","Z">>
LowerLetters == <<"a","b","c","d","e","f","g","h","i","j","k","l","m",
                  "n","o","p","q","r","s","t","u","v","w","x","y","z">>
Digits == <<"0","1","2","3","4","5","6","7","8","9">>

IndexIn(tbl, ch) == CHOOSE i \in 1..Len(tbl) : tbl[i] = ch
IsIn(tbl, ch) == \E i \in 1..Len(tbl) : tbl[i] = ch

ToLowerCh(ch) == IF IsIn(UpperLetters, ch) THEN LowerLetters[IndexIn(UpperLetters, ch)] ELSE ch
ToUpperCh(ch) == IF IsIn(LowerLetters, ch) THEN UpperLetters[IndexIn(LowerLetters, ch)] ELSE ch

\* strings.ToLower / strings.ToUpper
ToLower(s) == [i \in 1..Len(s) |-> ToLowerCh(s[i])]
ToUpper(s) == [i \in 1..Len(s) |-> ToUpperCh(s[i])]

\* strings.EqualFold
EqualFold(s, t) ==
    /\ Len(s) = Len(t)
    /\ \A i \in 1..Len(s) : ToLowerCh(s[i]) = ToLowerCh(t[i])

\* strings.HasPrefix
HasPrefix(s, prefix) ==
    /\ Len(s) >= Len(prefix)
    /\ SubSeq(s, 1, Len(prefix)) = prefix

\* strconv.Itoa for a non-negative int
RECURSIVE Itoa(_)
Itoa(n) == IF n < 10 THEN <<Digits[n + 1]>>
           ELSE Itoa(n \div 10) \o <<Digits[(n % 10) + 1]>>

\* string literals of the source
S_http == <<"h","t","t","p",":","/","/">>
S_https == <<"h","t","t","p","s",":","/","/">>
S_DEFAULT == <<"D","E","F","A","U","L","T">>
S_localhost == <<"l","o","c","a","l","h","o","s","t">>
S_defaultsecretkey == <<"d","e","f","a","u","l","t","s","e","c","r","e","t","k","e","y">>
S_SERVER == <<"S","E","R","V","E","R">>
S_quote == <<"'">>
S_backslash == <<"\\">>
S_dquote == <<"\"">>
S_qmark == <<"?">>

\* errors
ErrNone == "nil"
ErrNoDataFromSource == "no data from source for configuration"
ErrSaveNotLocalFile == "configuration file is not local"
ErrFetch == "fetch error"        \* error of os.ReadFile / http.Get / io.ReadAll
ErrParse == "json error"         \* error of json.Unmarshal
ErrWrite == "write error"        \* error of os.WriteFile

\* ------------------------------------------------- the document (type block)
\* Configuration{} : every pointer nil, every string empty, local false.
\* Of the struct's fields the model keeps the collections the accessors read,
\* the fields load defaults, FileName and local; the other fields are copied
\* by json.Unmarshal and never read by the code modelled here.
ZeroConfiguration ==
    [APIEndpoints |-> Nil, Databases |-> Nil, Notifications |-> Nil,
     DefaultDatabaseID |-> Nil, DefaultEndpointID |-> Nil,
     DefaultNotificationID |-> Nil, CookieDomain |-> Nil, JWTSecret |-> Nil,
     Flags |-> Nil, Domains |-> Nil, Sources |-> Nil, OAuths |-> Nil,
     FileName |-> <<>>, local |-> FALSE]

\* ------------------------------------------------------------ bytes and JSON
\* The bytes of a source: no bytes at all, bytes that are not a JSON object
\* for the document, or a JSON object.  "absent" is a source that cannot be
\* read (missing file, failed request).  A JSON member is Nil when the object
\* does not carry it (or carries null) and Ptr(value) otherwise.
JNoDoc ==
    [APIEndpoints |-> Nil, Databases |-> Nil, Notifications |-> Nil,
     DefaultDatabaseID |-> Nil, DefaultEndpointID |-> Nil,
     DefaultNotificationID |-> Nil, CookieDomain |-> Nil, JWTSecret |-> Nil,
     Flags |-> Nil, Domains |-> Nil, Sources |-> Nil, OAuths |-> Nil,
     FileName |-> Nil]
Absent == [kind |-> "absent", doc |-> JNoDoc]
NoBytes == [kind |-> "empty", doc |-> JNoDoc]
BadBytes == [kind |-> "bad", doc |-> JNoDoc]
JsonBytes(j) == [kind |-> "json", doc |-> j]

\* a string member decoded into a string field of a fresh struct
StrOf(m) == IF m = Nil THEN <<>> ELSE m[1]

UnmarshalDatabase(j) ==
    [GroupID |-> j.GroupID, ID |-> StrOf(j.ID),
     ConnectionString |-> StrOf(j.ConnectionString),
     StorageType |-> StrOf(j.StorageType),
     ParameterPlaceholder |-> StrOf(j.ParameterPlaceholder),
     InterpolateTables |-> j.InterpolateTables,
     StringEnclosingChar |-> j.StringEnclosingChar,
     StringEscapeChar |-> j.StringEscapeChar,
     ReservedWordEscapeChar |-> j.ReservedWordEscapeChar]

UnmarshalEndpoint(j) ==
    [ID |-> StrOf(j.ID), Address |-> StrOf(j.Address), GroupID |-> j.GroupID]

UnmarshalNotification(j) ==
    [ID |-> StrOf(j.ID), APIHost |-> StrOf(j.APIHost)]

UnmarshalFlag(j) == [Key |-> StrOf(j.Key), Value |-> j.Value]

UnmarshalDomain(j) == [Name |-> StrOf(j.Name), Host |-> StrOf(j.Host)]

UnmarshalSource(j) == [ID |-> StrOf(j.ID), Type |-> StrOf(j.Type)]

UnmarshalOAuth(j) == [ID |-> StrOf(j.ID), ClientID |-> StrOf(j.ClientID)]

\* json.Unmarshal(b, config) for bytes holding the JSON object j
Unmarshal(j, config) ==
    [config EXCEPT
       !.APIEndpoints = IF j.APIEndpoints = Nil THEN @
                        ELSE Ptr([i \in 1..Len(j.APIEndpoints[1]) |->
                                    UnmarshalEndpoint(j.APIEndpoints[1][i])]),
       !.Databases = IF j.Databases = Nil THEN @
                     ELSE Ptr([i \in 1..Len(j.Databases[1]) |->
                                 UnmarshalDatabase(j.Databases[1][i])]),
       !.Notifications = IF j.Notifications = Nil THEN @
                         ELSE Ptr([i \in 1..Len(j.Notifications[1]) |->
                                     UnmarshalNotification(j.Notifications[1][i])]),
       !.DefaultDatabaseID = IF j.DefaultDatabaseID = Nil THEN @ ELSE j.DefaultDatabaseID,
       !.DefaultEndpointID = IF j.DefaultEndpointID = Nil THEN @ ELSE j.DefaultEndpointID,
       !.DefaultNotificationID = IF j.DefaultNotificationID = Nil THEN @
                                 ELSE j.DefaultNotificationID,
       !.CookieDomain = IF j.CookieDomain = Nil THEN @ ELSE j.CookieDomain,
       !.JWTSecret = IF j.JWTSecret = Nil THEN @ ELSE j.JWTSecret,
       !.Flags = IF j.Flags = Nil THEN @
                 ELSE Ptr([i \in 1..Len(j.Flags[1]) |-> UnmarshalFlag(j.Flags[1][i])]),
       !.Domains = IF j.Domains = Nil THEN @
                   ELSE Ptr([i \in 1..Len(j.Domains[1]) |-> UnmarshalDomain(j.Domains[1][i])]),
       !.Sources = IF j.Sources = Nil THEN @
                   ELSE Ptr([i \in 1..Len(j.Sources[1]) |-> UnmarshalSource(j.Sources[1][i])]),
       !.OAuths = IF j.OAuths = Nil THEN @
                  ELSE Ptr([i \in 1..Len(j.OAuths[1]) |-> UnmarshalOAuth(j.OAuths[1][i])]),
       !.FileName = IF j.FileName = Nil THEN @ ELSE j.FileName[1]]

\* a variant of MarshalDatabase that leaves out InterpolateTables when it is
\* false, as omitempty does for a bool
MarshalDatabaseOmitFalse(d) ==
    [GroupID |-> d.GroupID, ID |-> Ptr(d.ID),
     ConnectionString |-> Ptr(d.ConnectionString),
     StorageType |-> Ptr(d.StorageType),
     ParameterPlaceholder |-> Ptr(d.ParameterPlaceholder),
     InterpolateTables |-> IF d.InterpolateTables = Ptr(FALSE) THEN Nil
                           ELSE d.InterpolateTables,
     StringEnclosingChar |-> d.StringEnclosingChar,
     StringEscapeChar |-> d.StringEscapeChar,
     ReservedWordEscapeChar |-> d.ReservedWordEscapeChar]
MarshalDatabase(d) ==
    [GroupID |-> d.GroupID, ID |-> Ptr(d.ID),
     ConnectionString |-> Ptr(d.ConnectionString),
     StorageType |-> Ptr(d.StorageType),
     ParameterPlaceholder |-> Ptr(d.ParameterPlaceholder),
     InterpolateTables |-> d.InterpolateTables,
     StringEnclosingChar |-> d.StringEnclosingChar,
     StringEscapeChar |-> d.StringEscapeChar,
     ReservedWordEscapeChar |-> d.ReservedWordEscapeChar]

MarshalEndpoint(e) ==
    [ID |-> Ptr(e.ID), Address |-> Ptr(e.Address), GroupID |-> e.GroupID]

MarshalNotification(n) ==
    [ID |-> Ptr(n.ID), APIHost |-> Ptr(n.APIHost)]

MarshalFlag(f) == [Key |-> Ptr(f.Key), Value |-> f.Value]

MarshalDomain(d) == [Name |-> Ptr(d.Name), Host |-> Ptr(d.Host)]

MarshalSource(s) == [ID |-> Ptr(s.ID), Type |-> Ptr(s.Type)]

MarshalOAuth(o) == [ID |-> Ptr(o.ID), ClientID |-> Ptr(o.ClientID)]

\* json.MarshalIndent(c, "", "\t"): every exported field is written (this
\* revision has no omitempty), a nil pointer as null; local is unexported and
\* is not written.  The struct has no field whose encoding can fail.
Marshal(c) ==
    JsonBytes(
    [APIEndpoints |-> IF c.APIEndpoints = Nil THEN Nil
                      ELSE Ptr([i \in 1..Len(c.APIEndpoints[1]) |->
                                  MarshalEndpoint(c.APIEndpoints[1][i])]),
     Databases |-> IF c.Databases = Nil THEN Nil
                   ELSE Ptr([i \in 1..Len(c.Databases[1]) |->
                               MarshalDatabase(c.Databases[1][i])]),
     Notifications |-> IF c.Notifications = Nil THEN Nil
                       ELSE Ptr([i \in 1..Len(c.Notifications[1]) |->
                                   MarshalNotification(c.Notifications[1][i])]),
     DefaultDatabaseID |-> c.DefaultDatabaseID,
     DefaultEndpointID |-> c.DefaultEndpointID,
     DefaultNotificationID |-> c.DefaultNotificationID,
     CookieDomain |-> c.CookieDomain,
     JWTSecret |-> c.JWTSecret,
     Flags |-> IF c.Flags = Nil THEN Nil
               ELSE Ptr([i \in 1..Len(c.Flags[1]) |-> MarshalFlag(c.Flags[1][i])]),
     Domains |-> IF c.Domains = Nil THEN Nil
                 ELSE Ptr([i \in 1..Len(c.Domains[1]) |-> MarshalDomain(c.Domains[1][i])]),
     Sources |-> IF c.Sources = Nil THEN Nil
                 ELSE Ptr([i \in 1..Len(c.Sources[1]) |-> MarshalSource(c.Sources[1][i])]),
     OAuths |-> IF c.OAuths = Nil THEN Nil
                ELSE Ptr([i \in 1..Len(c.OAuths[1]) |-> MarshalOAuth(c.OAuths[1][i])]),
     FileName |-> Ptr(c.FileName)])

\* ---------------------------------------------------------------------- load
\* os.ReadFile(source) against the file system fs
ReadFile(fs, source) ==
    IF source \in DOMAIN fs /\ fs[source].kind # "absent"
    THEN [b |-> fs[source], err |-> ErrNone]
    ELSE [b |-> NoBytes, err |-> ErrFetch]

\* http.Get(source) followed by io.ReadAll of the body, against the network
HttpGet(net, source) ==
    IF source \in DOMAIN net /\ net[source].kind # "absent"
    THEN [b |-> net[source], err |-> ErrNone]
    ELSE [b |-> NoBytes, err |-> ErrFetch]

\* a variant of IsLocalSource that knows the http:// prefix only
IsLocalSourceHttpOnly(source) == ~HasPrefix(source, S_http)
IsLocalSource(source) == ~(HasPrefix(source, S_http) \/ HasPrefix(source, S_https))

\* a variant of DefaultDatabase that keeps the letter case of a supplied
\* StorageType
DefaultDatabaseKeepCase(cd) ==
    [cd EXCEPT
       !.InterpolateTables = IF @ = Nil THEN Ptr(TRUE) ELSE @,
       !.StringEnclosingChar = IF @ = Nil \/ @ = Ptr(<<>>) THEN Ptr(S_quote) ELSE @,
       !.StringEscapeChar = IF @ = Nil \/ @ = Ptr(<<>>) THEN Ptr(S_backslash) ELSE @,
       !.ReservedWordEscapeChar = IF @ = Nil \/ @ = Ptr(<<>>) THEN Ptr(S_dquote) ELSE @,
       !.ParameterPlaceholder = IF @ = <<>> THEN S_qmark ELSE @,
       !.StorageType = IF @ = <<>> THEN S_SERVER ELSE @]

\* the body of the loop over config.Databases
DefaultDatabase(cd) ==
    [cd EXCEPT
       !.InterpolateTables = IF @ = Nil THEN Ptr(TRUE) ELSE @,
       !.StringEnclosingChar = IF @ = Nil \/ @ = Ptr(<<>>) THEN Ptr(S_quote) ELSE @,
       !.StringEscapeChar = IF @ = Nil \/ @ = Ptr(<<>>) THEN Ptr(S_backslash) ELSE @,
       !.ReservedWordEscapeChar = IF @ = Nil \/ @ = Ptr(<<>>) THEN Ptr(S_dquote) ELSE @,
       !.ParameterPlaceholder = IF @ = <<>> THEN S_qmark ELSE @,
       !.StorageType = IF @ = <<>> THEN S_SERVER ELSE ToUpper(@)]

\* a variant of DefaultNotification that numbers the records from 1
DefaultNotificationOneBased(cn, i) ==
    LET defnum == IF i > 0 THEN Itoa(i + 1) ELSE <<>>
    IN  IF cn.ID = <<>> THEN [cn EXCEPT !.ID = S_DEFAULT \o defnum] ELSE cn
\* the body of the loop over config.Notifications, for the record at the
\* 0-based index i
DefaultNotification(cn, i) ==
    LET defnum == IF i > 0 THEN Itoa(i) ELSE <<>>
    IN  IF cn.ID = <<>> THEN [cn EXCEPT !.ID = S_DEFAULT \o defnum] ELSE cn

\* a variant of ApplyDefaults that fills the default IDs only when they are
\* absent, not when they are empty
ApplyDefaultsNilOnly(config, source) ==
    [config EXCEPT
       !.DefaultDatabaseID = IF @ = Nil THEN Ptr(S_DEFAULT) ELSE @,
       !.DefaultEndpointID = IF @ = Nil THEN Ptr(S_DEFAULT) ELSE @,
       !.DefaultNotificationID = IF @ = Nil THEN Ptr(S_DEFAULT) ELSE @,
       !.CookieDomain = IF @ = Nil THEN Ptr(S_localhost) ELSE @,
       !.JWTSecret = IF @ = Nil THEN Ptr(S_defaultsecretkey) ELSE @,
       !.Databases = IF @ = Nil THEN @
                     ELSE Ptr([i \in 1..Len(@[1]) |-> DefaultDatabase(@[1][i])]),
       !.Notifications = IF @ = Nil THEN @
                         ELSE Ptr([i \in 1..Len(@[1]) |->
                                     DefaultNotification(@[1][i], i - 1)]),
       !.FileName = source]
\* a variant of ApplyDefaults that sets CookieDomain and JWTSecret whether or
\* not the document supplied them
ApplyDefaultsOverwrite(config, source) ==
    [config EXCEPT
       !.DefaultDatabaseID = IF @ = Nil \/ @ = Ptr(<<>>) THEN Ptr(S_DEFAULT) ELSE @,
       !.DefaultEndpointID = IF @ = Nil \/ @ = Ptr(<<>>) THEN Ptr(S_DEFAULT) ELSE @,
       !.DefaultNotificationID = IF @ = Nil \/ @ = Ptr(<<>>) THEN Ptr(S_DEFAULT) ELSE @,
       !.CookieDomain = Ptr(S_localhost),
       !.JWTSecret = Ptr(S_defaultsecretkey),
       !.Databases = IF @ = Nil THEN @
                     ELSE Ptr([i \in 1..Len(@[1]) |-> DefaultDatabase(@[1][i])]),
       !.Notifications = IF @ = Nil THEN @
                         ELSE Ptr([i \in 1..Len(@[1]) |->
                                     DefaultNotification(@[1][i], i - 1)]),
       !.FileName = source]
\* the part of load after a successful json.Unmarshal
ApplyDefaults(config, source) ==
    [config EXCEPT
       !.DefaultDatabaseID = IF @ = Nil \/ @ = Ptr(<<>>) THEN Ptr(S_DEFAULT) ELSE @,
       !.DefaultEndpointID = IF @ = Nil \/ @ = Ptr(<<>>) THEN Ptr(S_DEFAULT) ELSE @,
       !.DefaultNotificationID = IF @ = Nil \/ @ = Ptr(<<>>) THEN Ptr(S_DEFAULT) ELSE @,
       !.CookieDomain = IF @ = Nil THEN Ptr(S_localhost) ELSE @,
       !.JWTSecret = IF @ = Nil THEN Ptr(S_defaultsecretkey) ELSE @,
       !.Databases = IF @ = Nil THEN @
                     ELSE Ptr([i \in 1..Len(@[1]) |-> DefaultDatabase(@[1][i])]),
       !.Notifications = IF @ = Nil THEN @
                         ELSE Ptr([i \in 1..Len(@[1]) |->
                                     DefaultNotification(@[1][i], i - 1)]),
       !.FileName = source]

\* a variant of load that returns no document when the fetch fails
loadNilOnFetchError(source, fs, net) ==
    LET config == [ZeroConfiguration EXCEPT !.local = IsLocalSource(source)]
        got == IF config.local THEN ReadFile(fs, source) ELSE HttpGet(net, source)
    IN  IF got.err # ErrNone THEN [config |-> Nil, err |-> got.err]
        ELSE IF got.b.kind = "empty"
             THEN [config |-> Ptr(config), err |-> ErrNoDataFromSource]
        ELSE IF got.b.kind = "bad" THEN [config |-> Nil, err |-> ErrParse]
        ELSE [config |-> Ptr(ApplyDefaults(Unmarshal(got.b.doc, config), source)),
              err |-> ErrNone]

\* a variant of load without the len(b) == 0 test: json.Unmarshal rejects the
\* empty input
loadParsesEmpty(source, fs, net) ==
    LET config == [ZeroConfiguration EXCEPT !.local = IsLocalSource(source)]
        got == IF config.local THEN ReadFile(fs, source) ELSE HttpGet(net, source)
    IN  IF got.err # ErrNone THEN [config |-> Ptr(config), err |-> got.err]
        ELSE IF got.b.kind \in {"empty", "bad"} THEN [config |-> Nil, err |-> ErrParse]
        ELSE [config |-> Ptr(ApplyDefaults(Unmarshal(got.b.doc, config), source)),
              err |-> ErrNone]

\* a variant of load that returns the document along with the parse error
loadPartialOnParseError(source, fs, net) ==
    LET config == [ZeroConfiguration EXCEPT !.local = IsLocalSource(source)]
        got == IF config.local THEN ReadFile(fs, source) ELSE HttpGet(net, source)
    IN  IF got.err # ErrNone THEN [config |-> Ptr(config), err |-> got.err]
        ELSE IF got.b.kind = "empty"
             THEN [config |-> Ptr(config), err |-> ErrNoDataFromSource]
        ELSE IF got.b.kind = "bad" THEN [config |-> Ptr(config), err |-> ErrParse]
        ELSE [config |-> Ptr(ApplyDefaults(Unmarshal(got.b.doc, config), source)),
              err |-> ErrNone]
\* load(source): the returned (*Configuration, error)
load(source, fs, net) ==
    LET config == [ZeroConfiguration EXCEPT !.local = IsLocalSource(source)]
        got == IF config.local THEN ReadFile(fs, source) ELSE HttpGet(net, source)
    IN  IF got.err # ErrNone THEN [config |-> Ptr(config), err |-> got.err]
        ELSE IF got.b.kind = "empty"
             THEN [config |-> Ptr(config), err |-> ErrNoDataFromSource]
        ELSE IF got.b.kind = "bad" THEN [config |-> Nil, err |-> ErrParse]
        ELSE [config |-> Ptr(ApplyDefaults(Unmarshal(got.b.doc, config), source)),
              err |-> ErrNone]

\* ------------------------------------------ the revisions with driver defaults
\* unnamed/part_006 and the LoadConfig revision of configuration.go carry
\* DriverName, IdentityQuery, DateFunction and UTCDateFunction on the database
\* record and default the last three for SQL Server.
S_sqlserver == <<"s","q","l","s","e","r","v","e","r">>
S_mssql == <<"m","s","s","q","l">>
S_ScopeIdentity == <<"S","E","L","E","C","T"," ","S","C","O","P","E","_","I","D","E","N","T","I","T","Y","(",")",";">>
S_GetUTCDate == <<"G","E","T","U","T","C","D","A","T","E","(",")">>
S_GetDate == <<"G","E","T","D","A","T","E","(",")">>
ErrNoDataNew == "No data from source for configuration"

\* json.Unmarshal of one element of Databases into the DatabaseInfo of these
\* revisions
UnmarshalDatabaseDriver(j) ==
    [GroupID |-> j.GroupID, ID |-> StrOf(j.ID),
     ConnectionString |-> StrOf(j.ConnectionString),
     DriverName |-> StrOf(j.DriverName),
     StorageType |-> StrOf(j.StorageType),
     ParameterPlaceholder |-> StrOf(j.ParameterPlaceholder),
     InterpolateTables |-> j.InterpolateTables,
     StringEnclosingChar |-> j.StringEnclosingChar,
     StringEscapeChar |-> j.StringEscapeChar,
     IdentityQuery |-> j.IdentityQuery,
     DateFunction |-> j.DateFunction,
     UTCDateFunction |-> j.UTCDateFunction,
     ReservedWordEscapeChar |-> j.ReservedWordEscapeChar]

\* json.Unmarshal(b, config) in these revisions, which have no OAuths field:
\* an OAuths member of the JSON object is ignored
UnmarshalDriver(j, config) ==
    [Unmarshal([j EXCEPT !.Databases = Nil, !.OAuths = Nil], config) EXCEPT
       !.Databases = IF j.Databases = Nil THEN @
                     ELSE Ptr([i \in 1..Len(j.Databases[1]) |->
                                 UnmarshalDatabaseDriver(j.Databases[1][i])])]

\* the block guarded by StorageType == SERVER and the driver name
DriverDefaults(cd) ==
    LET drivern == ToLower(cd.DriverName)
    IN  IF cd.StorageType = S_SERVER /\ (drivern = S_sqlserver \/ drivern = S_mssql)
        THEN [cd EXCEPT
                !.IdentityQuery = IF @ = Nil \/ @ = Ptr(<<>>) THEN Ptr(S_ScopeIdentity) ELSE @,
                !.UTCDateFunction = IF @ = Nil \/ @ = Ptr(<<>>) THEN Ptr(S_GetUTCDate) ELSE @,
                !.DateFunction = IF @ = Nil \/ @ = Ptr(<<>>) THEN Ptr(S_GetDate) ELSE @]
        ELSE cd

\* a variant of DefaultDatabasePart006 that compares the driver name as
\* written, without strings.ToLower
DefaultDatabaseDriverAsWritten(cd) ==
    LET d == DefaultDatabase(cd)
    IN  IF d.StorageType = S_SERVER /\ (d.DriverName = S_sqlserver \/ d.DriverName = S_mssql)
        THEN [d EXCEPT
                !.IdentityQuery = IF @ = Nil \/ @ = Ptr(<<>>) THEN Ptr(S_ScopeIdentity) ELSE @,
                !.UTCDateFunction = IF @ = Nil \/ @ = Ptr(<<>>) THEN Ptr(S_GetUTCDate) ELSE @,
                !.DateFunction = IF @ = Nil \/ @ = Ptr(<<>>) THEN Ptr(S_GetDate) ELSE @]
        ELSE d

\* the body of the loop over config.Databases in unnamed/part_006: the
\* defaults of DefaultDatabase, then the driver block
DefaultDatabasePart006(cd) == DriverDefaults(DefaultDatabase(cd))

\* the body of the loop over config.Databases in the LoadConfig revision:
\* StorageType is upper-cased after it was defaulted
DefaultDatabaseLoadConfig(cd) ==
    DriverDefaults(
      [cd EXCEPT
         !.InterpolateTables = IF @ = Nil THEN Ptr(TRUE) ELSE @,
         !.StringEnclosingChar = IF @ = Nil \/ @ = Ptr(<<>>) THEN Ptr(S_quote) ELSE @,
         !.StringEscapeChar = IF @ = Nil \/ @ = Ptr(<<>>) THEN Ptr(S_backslash) ELSE @,
         !.ReservedWordEscapeChar = IF @ = Nil \/ @ = Ptr(<<>>) THEN Ptr(S_dquote) ELSE @,
         !.ParameterPlaceholder = IF @ = <<>> THEN S_qmark ELSE @,
         !.StorageType = ToUpper(IF @ = <<>> THEN S_SERVER ELSE @)])

\* the part of load after json.Unmarshal in unnamed/part_006
ApplyDefaultsPart006(config, source) ==
    [config EXCEPT
       !.DefaultDatabaseID = IF @ = Nil \/ @ = Ptr(<<>>) THEN Ptr(S_DEFAULT) ELSE @,
       !.DefaultEndpointID = IF @ = Nil \/ @ = Ptr(<<>>) THEN Ptr(S_DEFAULT) ELSE @,
       !.DefaultNotificationID = IF @ = Nil \/ @ = Ptr(<<>>) THEN Ptr(S_DEFAULT) ELSE @,
       !.CookieDomain = IF @ = Nil THEN Ptr(S_localhost) ELSE @,
       !.JWTSecret = IF @ = Nil THEN Ptr(S_defaultsecretkey) ELSE @,
       !.Databases = IF @ = Nil THEN @
                     ELSE Ptr([i \in 1..Len(@[1]) |-> DefaultDatabasePart006(@[1][i])]),
       !.Notifications = IF @ = Nil THEN @
                         ELSE Ptr([i \in 1..Len(@[1]) |->
                                     DefaultNotification(@[1][i], i - 1)]),
       !.FileName = source]

\* load(source) of unnamed/part_006
loadPart006(source, fs, net) ==
    LET config == [ZeroConfiguration EXCEPT !.local = IsLocalSource(source)]
        got == IF config.local THEN ReadFile(fs, source) ELSE HttpGet(net, source)
    IN  IF got.err # ErrNone THEN [config |-> Ptr(config), err |-> got.err]
        ELSE IF got.b.kind = "empty"
             THEN [config |-> Ptr(config), err |-> ErrNoDataFromSource]
        ELSE IF got.b.kind = "bad" THEN [config |-> Nil, err |-> ErrParse]
        ELSE [config |-> Ptr(ApplyDefaultsPart006(UnmarshalDriver(got.b.doc, config), source)),
              err |-> ErrNone]

\* &Configuration{errorText: ``} of the LoadConfig revision, which has no
\* locality field; errorText holds the text of the error load returned.
\* OAuths, a field this revision lacks, stays nil.
ZeroConfigurationLoadConfig ==
    [APIEndpoints |-> Nil, Databases |-> Nil, Notifications |-> Nil,
     DefaultDatabaseID |-> Nil, DefaultEndpointID |-> Nil,
     DefaultNotificationID |-> Nil, CookieDomain |-> Nil, JWTSecret |-> Nil,
     Flags |-> Nil, Domains |-> Nil, Sources |-> Nil, OAuths |-> Nil,
     FileName |-> <<>>, errorText |-> ErrNone]

\* the part of load after json.Unmarshal in the LoadConfig revision
ApplyDefaultsLoadConfig(config) ==
    [config EXCEPT
       !.DefaultDatabaseID = IF @ = Nil \/ @ = Ptr(<<>>) THEN Ptr(S_DEFAULT) ELSE @,
       !.DefaultEndpointID = IF @ = Nil \/ @ = Ptr(<<>>) THEN Ptr(S_DEFAULT) ELSE @,
       !.DefaultNotificationID = IF @ = Nil \/ @ = Ptr(<<>>) THEN Ptr(S_DEFAULT) ELSE @,
       !.Databases = IF @ = Nil THEN @
                     ELSE Ptr([i \in 1..Len(@[1]) |-> DefaultDatabaseLoadConfig(@[1][i])]),
       !.Notifications = IF @ = Nil THEN @
                         ELSE Ptr([i \in 1..Len(@[1]) |->
                                     DefaultNotification(@[1][i], i - 1)])]

\* load(Source) of the LoadConfig revision
loadLoadConfig(Source, fs, net) ==
    LET config == ZeroConfigurationLoadConfig
        islocfile == IsLocalSource(Source)
        got == IF islocfile THEN ReadFile(fs, Source) ELSE HttpGet(net, Source)
    IN  IF got.err # ErrNone
        THEN [config |-> Ptr([config EXCEPT !.errorText = got.err]), err |-> got.err]
        ELSE IF got.b.kind = "empty"
             THEN [config |-> Ptr([config EXCEPT !.errorText = ErrNoDataNew]),
                   err |-> ErrNoDataNew]
        ELSE IF got.b.kind = "bad" THEN [config |-> Nil, err |-> ErrParse]
        ELSE [config |-> Ptr(ApplyDefaultsLoadConfig(
                               UnmarshalDriver(got.b.doc,
                                               [config EXCEPT !.FileName = Source]))),
              err |-> ErrNone]

\* ------------------------------------ the value-typed LoadConfig revision
\* unnamed/part_002: Databases and Notifications are slices of values and the
\* fields are plain strings.
ZeroConfigurationPart002 ==
    [Databases |-> <<>>, Notifications |-> <<>>, DefaultDatabaseID |-> <<>>,
     DefaultEndpointID |-> <<>>, DefaultNotificationID |-> <<>>,
     FileName |-> <<>>, errorText |-> ErrNone]

\* json.Unmarshal of one element of Databases into the DatabaseInfo of
\* unnamed/part_002
UnmarshalDatabasePart002(j) ==
    [GroupID |-> StrOf(j.GroupID), ID |-> StrOf(j.ID),
     ConnectionString |-> StrOf(j.ConnectionString),
     DriverName |-> StrOf(j.DriverName),
     StorageType |-> StrOf(j.StorageType),
     ParameterPlaceholder |-> StrOf(j.ParameterPlaceholder),
     StringEnclosingChar |-> StrOf(j.StringEnclosingChar),
     StringEscapeChar |-> StrOf(j.StringEscapeChar),
     IdentityQuery |-> StrOf(j.IdentityQuery),
     DateFunction |-> StrOf(j.DateFunction),
     UTCDateFunction |-> StrOf(j.UTCDateFunction),
     ReservedWordEscapeChar |-> StrOf(j.ReservedWordEscapeChar)]

\* json.Unmarshal(b, config) in unnamed/part_002
UnmarshalPart002(j, config) ==
    [config EXCEPT
       !.Databases = IF j.Databases = Nil THEN @
                     ELSE [i \in 1..Len(j.Databases[1]) |->
                             UnmarshalDatabasePart002(j.Databases[1][i])],
       !.Notifications = IF j.Notifications = Nil THEN @
                         ELSE [i \in 1..Len(j.Notifications[1]) |->
                                 UnmarshalNotification(j.Notifications[1][i])],
       !.DefaultDatabaseID = IF j.DefaultDatabaseID = Nil THEN @ ELSE j.DefaultDatabaseID[1],
       !.DefaultEndpointID = IF j.DefaultEndpointID = Nil THEN @ ELSE j.DefaultEndpointID[1],
       !.DefaultNotificationID =
           IF j.DefaultNotificationID = Nil THEN @ ELSE j.DefaultNotificationID[1],
       !.FileName = IF j.FileName = Nil THEN @ ELSE j.FileName[1]]

\* the loop variable cd of `for i, cd := range config.Databases` at the end
\* of the loop body.  cd is a copy of the element: the assignments to cd
\* change the copy only.
LoopCopyPart002(el) ==
    [el EXCEPT
       !.StringEnclosingChar = IF @ = <<>> THEN S_quote ELSE @,
       !.StringEscapeChar = IF @ = <<>> THEN S_backslash ELSE @,
       !.ReservedWordEscapeChar = IF @ = <<>> THEN S_dquote ELSE @,
       !.StorageType = ToUpper(@)]

\* config.Databases[i] after the loop body: what the body assigns through
\* config.Databases[i], under the conditions it tests on the copy cd
DefaultDatabasePart002(el) ==
    LET cd == LoopCopyPart002(el)
        drivern == ToLower(cd.DriverName)
        stored == [el EXCEPT
                     !.ParameterPlaceholder = IF el.ParameterPlaceholder = <<>>
                                              THEN S_qmark ELSE @,
                     !.StorageType = IF el.StorageType = <<>> THEN S_SERVER ELSE @]
    IN  IF cd.StorageType = S_SERVER /\ (drivern = S_sqlserver \/ drivern = S_mssql)
        THEN [stored EXCEPT
                !.IdentityQuery = IF @ = <<>> THEN S_ScopeIdentity ELSE @,
                !.UTCDateFunction = IF @ = <<>> THEN S_GetUTCDate ELSE @,
                !.DateFunction = IF @ = <<>> THEN S_GetDate ELSE @]
        ELSE stored

\* the part of load after json.Unmarshal in unnamed/part_002
ApplyDefaultsPart002(config) ==
    [config EXCEPT
       !.DefaultDatabaseID = IF @ = <<>> THEN S_DEFAULT ELSE @,
       !.DefaultEndpointID = IF @ = <<>> THEN S_DEFAULT ELSE @,
       !.DefaultNotificationID = IF @ = <<>> THEN S_DEFAULT ELSE @,
       !.Databases = [i \in 1..Len(@) |-> DefaultDatabasePart002(@[i])],
       !.Notifications = [i \in 1..Len(@) |-> DefaultNotification(@[i], i - 1)]]

\* load(Source) of unnamed/part_002
loadPart002(Source, fs, net) ==
    LET config == ZeroConfigurationPart002
        islocfile == IsLocalSource(Source)
        got == IF islocfile THEN ReadFile(fs, Source) ELSE HttpGet(net, Source)
    IN  IF got.err # ErrNone
        THEN [config |-> Ptr([config EXCEPT !.errorText = got.err]), err |-> got.err]
        ELSE IF got.b.kind = "empty"
             THEN [config |-> Ptr([config EXCEPT !.errorText = ErrNoDataNew]),
                   err |-> ErrNoDataNew]
        ELSE IF got.b.kind = "bad" THEN [config |-> Nil, err |-> ErrParse]
        ELSE [config |-> Ptr(ApplyDefaultsPart002(
                               UnmarshalPart002(got.b.doc,
                                                [config EXCEPT !.FileName = Source]))),
              err |-> ErrNone]
\* ------------------------------------------------------- interpolateEnvVars
\* A token is "${" + one or more of [A-Z0-9_] + "}".
IsNameCh(ch) == IsIn(UpperLetters, ch) \/ IsIn(Digits, ch) \/ ch = "_"

\* the first index at or after i that does not hold a name character
RECURSIVE NameEnd(_, _)
NameEnd(text, i) ==
    IF i <= Len(text) /\ IsNameCh(text[i]) THEN NameEnd(text, i + 1) ELSE i

\* the index of the "}" closing a token that starts at i, or 0
TokenEnd(text, i) ==
    IF i + 3 <= Len(text) /\ text[i] = "$" /\ text[i + 1] = "{"
    THEN LET j == NameEnd(text, i + 2)
         IN  IF j > i + 2 /\ j <= Len(text) /\ text[j] = "}" THEN j ELSE 0
    ELSE 0

\* os.Getenv: the value, "" when the variable is unset
Getenv(e, name) == IF name \in DOMAIN e /\ e[name] # Nil THEN e[name][1] ELSE <<>>

RECURSIVE InterpolateFrom(_, _, _)
InterpolateFrom(text, i, e) ==
    IF i > Len(text) THEN <<>>
    ELSE LET j == TokenEnd(text, i)
         IN  IF j = 0 THEN <<text[i]>> \o InterpolateFrom(text, i + 1, e)
             ELSE Getenv(e, SubSeq(text, i + 2, j - 1)) \o InterpolateFrom(text, j + 1, e)

\* a variant that keeps the token of an unset variable as literal text
InterpolateKeepUnset(text, e) ==
    LET RECURSIVE From(_)
        From(i) ==
            IF i > Len(text) THEN <<>>
            ELSE LET j == TokenEnd(text, i)
                 IN  IF j = 0 \/ Getenv(e, SubSeq(text, i + 2, j - 1)) = <<>>
                     THEN <<text[i]>> \o From(i + 1)
                     ELSE Getenv(e, SubSeq(text, i + 2, j - 1)) \o From(j + 1)
    IN  From(1)

interpolateEnvVars(text, e) == InterpolateFrom(text, 1, e)

\* ---------------------------------------------------------------- accessors
MinOf(S) == CHOOSE m \in S : \A n \in S : m <= n

\* GetDatabaseInfo(id): &v of the first record with v.ID == id, or nil
GetDatabaseInfo(c, id) ==
    IF c.Databases = Nil THEN Nil
    ELSE LET dbs == c.Databases[1]
             hits == {i \in 1..Len(dbs) : dbs[i].ID = id}
         IN  IF hits = {} THEN Nil ELSE Ptr(dbs[MinOf(hits)])

\* the loop of GetDatabaseInfoGroup / GetEndpointInfoGroup from index i on:
\* skip a record with a nil GroupID, append one whose GroupID folds to groupId
RECURSIVE AppendGroup(_, _, _)
AppendGroup(recs, i, groupId) ==
    IF i > Len(recs) THEN <<>>
    ELSE IF recs[i].GroupID = Nil THEN AppendGroup(recs, i + 1, groupId)
    ELSE IF EqualFold(recs[i].GroupID[1], groupId)
         THEN <<recs[i]>> \o AppendGroup(recs, i + 1, groupId)
    ELSE AppendGroup(recs, i + 1, groupId)

\* a variant of the loop that compares the group id with ==
RECURSIVE AppendGroupExact(_, _, _)
AppendGroupExact(recs, i, groupId) ==
    IF i > Len(recs) THEN <<>>
    ELSE IF recs[i].GroupID = Nil THEN AppendGroupExact(recs, i + 1, groupId)
    ELSE IF recs[i].GroupID[1] = groupId
         THEN <<recs[i]>> \o AppendGroupExact(recs, i + 1, groupId)
    ELSE AppendGroupExact(recs, i + 1, groupId)

GetDatabaseInfoGroupExact(c, groupId) ==
    IF c.Databases = Nil \/ groupId = <<>> THEN Ptr(<<>>)
    ELSE Ptr(AppendGroupExact(c.Databases[1], 1, groupId))

\* GetDatabaseInfoGroup(groupId): a slice made by make(.., 0), never nil
GetDatabaseInfoGroup(c, groupId) ==
    IF c.Databases = Nil \/ groupId = <<>> THEN Ptr(<<>>)
    ELSE Ptr(AppendGroup(c.Databases[1], 1, groupId))

\* GetEndpointInfoGroup(groupId)
GetEndpointInfoGroup(c, groupId) ==
    IF c.APIEndpoints = Nil THEN Ptr(<<>>)
    ELSE Ptr(AppendGroup(c.APIEndpoints[1], 1, groupId))

\* the first record of recs whose ID folds to k, or nil
FirstFold(recs, k) ==
    LET hits == {i \in 1..Len(recs) : EqualFold(k, recs[i].ID)}
    IN  IF hits = {} THEN Nil ELSE Ptr(recs[MinOf(hits)])

\* GetEndpointInfo(id).  After the guard the code evaluates
\* strings.ToLower(*c.DefaultEndpointID) whatever id is: a nil
\* DefaultEndpointID is a nil pointer dereference there (panic).
GetEndpointInfo(c, id) ==
    IF c.APIEndpoints = Nil
       \/ (Len(id) = 0 /\ (c.DefaultEndpointID = Nil \/ c.DefaultEndpointID = Ptr(<<>>)))
    THEN [ret |-> Nil, panic |-> FALSE]
    ELSE IF c.DefaultEndpointID = Nil THEN [ret |-> Nil, panic |-> TRUE]
    ELSE LET k == IF Len(id) > 0 THEN ToLower(id) ELSE ToLower(c.DefaultEndpointID[1])
         IN  [ret |-> FirstFold(c.APIEndpoints[1], k), panic |-> FALSE]

\* GetNotificationInfo(id), same shape as GetEndpointInfo
GetNotificationInfo(c, id) ==
    IF c.Notifications = Nil
       \/ (Len(id) = 0 /\ (c.DefaultNotificationID = Nil
                           \/ c.DefaultNotificationID = Ptr(<<>>)))
    THEN [ret |-> Nil, panic |-> FALSE]
    ELSE IF c.DefaultNotificationID = Nil THEN [ret |-> Nil, panic |-> TRUE]
    ELSE LET k == IF Len(id) > 0 THEN ToLower(id)
                  ELSE ToLower(c.DefaultNotificationID[1])
         IN  [ret |-> FirstFold(c.Notifications[1], k), panic |-> FALSE]

\* GetDomainInfo(domainName): nil for the empty name
GetDomainInfo(c, domainName) ==
    IF c.Domains = Nil \/ domainName = <<>> THEN Nil
    ELSE LET ds == c.Domains[1]
             hits == {i \in 1..Len(ds) : EqualFold(ds[i].Name, domainName)}
         IN  IF hits = {} THEN Nil ELSE Ptr(ds[MinOf(hits)])

\* a variant of GetSourceInfo that compares the id with ==
GetSourceInfoExact(c, id) ==
    IF c.Sources = Nil \/ id = <<>> THEN Nil
    ELSE LET ss == c.Sources[1]
             hits == {i \in 1..Len(ss) : ss[i].ID = id}
         IN  IF hits = {} THEN Nil ELSE Ptr(ss[MinOf(hits)])

\* GetSourceInfo(id): nil for the empty id
GetSourceInfo(c, id) ==
    IF c.Sources = Nil \/ id = <<>> THEN Nil
    ELSE LET ss == c.Sources[1]
             hits == {i \in 1..Len(ss) : EqualFold(ss[i].ID, id)}
         IN  IF hits = {} THEN Nil ELSE Ptr(ss[MinOf(hits)])

\* GetOAuthInfo(id): nil for the empty id
GetOAuthInfo(c, id) ==
    IF c.OAuths = Nil \/ Len(c.OAuths[1]) = 0 \/ Len(id) = 0 THEN Nil
    ELSE LET os == c.OAuths[1]
             hits == {i \in 1..Len(os) : EqualFold(id, os[i].ID)}
         IN  IF hits = {} THEN Nil ELSE Ptr(os[MinOf(hits)])

\* strings.TrimSpace (ASCII white space)
IsSpaceCh(ch) == ch \in {" ", "\t", "\n", "\r"}

RECURSIVE TrimLeft(_)
TrimLeft(s) == IF s # <<>> /\ IsSpaceCh(Head(s)) THEN TrimLeft(Tail(s)) ELSE s

RECURSIVE TrimRight(_)
TrimRight(s) ==
    IF s # <<>> /\ IsSpaceCh(s[Len(s)]) THEN TrimRight(SubSeq(s, 1, Len(s) - 1)) ELSE s

TrimSpace(s) == TrimRight(TrimLeft(s))

\* strings.ReplaceAll(s, v, "") for a one-character v
RemoveCh(s, v) == LET Keep(ch) == ch # v IN SelectSeq(s, Keep)

\* the inner loop of Flag: the stored key with "_" removed, or else with "-"
\* removed, folds to the requested key
FlagMatches(key, f) ==
    \/ EqualFold(key, RemoveCh(f.Key, "_"))
    \/ EqualFold(key, RemoveCh(f.Key, "-"))

\* c.Flag(key): the first matching flag, or Flag{Key: key, Value: nil} with
\* the trimmed key
Flag(c, key) ==
    LET k == TrimSpace(key)
        ret == [Key |-> k, Value |-> Nil]
    IN  IF c.Flags = Nil THEN ret
        ELSE LET fs == c.Flags[1]
                 hits == {i \in 1..Len(fs) : FlagMatches(k, fs[i])}
             IN  IF hits = {} THEN ret ELSE fs[MinOf(hits)]

\* ---------------------------- endpoint accessors of the LoadConfig revision
\* the key GetEndpointAddress and GetEndpointInfo of the LoadConfig revision
\* search for: the lower-cased id, or the lower-cased *c.DefaultEndpointID
\* when id is missing or empty (panic when that pointer is nil)
EndpointKeyLoadConfig(c, id) ==
    IF ToLower(id) # <<>> THEN [k |-> ToLower(id), panic |-> FALSE]
    ELSE IF c.DefaultEndpointID = Nil THEN [k |-> <<>>, panic |-> TRUE]
    ELSE [k |-> ToLower(c.DefaultEndpointID[1]), panic |-> FALSE]

\* the loop of both accessors: the index of the first endpoint whose trimmed
\* lower-cased ID is k, or 0
FirstEndpointLoadConfig(eps, k) ==
    LET hits == {i \in 1..Len(eps) : k = TrimSpace(ToLower(eps[i].ID))}
    IN  IF hits = {} THEN 0 ELSE MinOf(hits)

\* GetEndpointAddress(id...) of the LoadConfig revision.  The guard returns ""
\* when APIEndpoints is NOT nil; past it `eps := *c.APIEndpoints` dereferences
\* the nil pointer.
GetEndpointAddressLoadConfig(c, id) ==
    IF c.APIEndpoints # Nil THEN [ret |-> <<>>, panic |-> FALSE]
    ELSE LET key == EndpointKeyLoadConfig(c, id)
         IN  IF key.panic THEN [ret |-> <<>>, panic |-> TRUE]
             ELSE IF key.k = <<>> THEN [ret |-> <<>>, panic |-> FALSE]
             ELSE IF c.APIEndpoints = Nil THEN [ret |-> <<>>, panic |-> TRUE]
             ELSE LET eps == c.APIEndpoints[1]
                      i == FirstEndpointLoadConfig(eps, key.k)
                  IN  [ret |-> IF i = 0 THEN <<>> ELSE eps[i].Address, panic |-> FALSE]

\* GetEndpointInfo(id...) of the LoadConfig revision, with the same guard
GetEndpointInfoLoadConfig(c, id) ==
    IF c.APIEndpoints # Nil THEN [ret |-> Nil, panic |-> FALSE]
    ELSE LET key == EndpointKeyLoadConfig(c, id)
         IN  IF key.panic THEN [ret |-> Nil, panic |-> TRUE]
             ELSE IF key.k = <<>> THEN [ret |-> Nil, panic |-> FALSE]
             ELSE IF c.APIEndpoints = Nil THEN [ret |-> Nil, panic |-> TRUE]
             ELSE LET eps == c.APIEndpoints[1]
                      i == FirstEndpointLoadConfig(eps, key.k)
                  IN  [ret |-> IF i = 0 THEN Nil ELSE Ptr(eps[i]), panic |-> FALSE]

\* GetEndpointInfoGroup(GroupID) of the LoadConfig revision, with the same
\* guard; the group id is compared with ==
GetEndpointInfoGroupLoadConfig(c, GroupID) ==
    IF c.APIEndpoints # Nil THEN [ret |-> Ptr(<<>>), panic |-> FALSE]
    ELSE IF c.APIEndpoints = Nil THEN [ret |-> Nil, panic |-> TRUE]
    ELSE LET InGroupID(v) == v.GroupID # Nil /\ v.GroupID[1] = GroupID
         IN  [ret |-> Ptr(SelectSeq(c.APIEndpoints[1], InGroupID)), panic |-> FALSE]
\* ------------------------------------------------------- flag.go accessors
\* Numbers are kept as decimal numerals so that the 64-bit limits are exact:
\* an integer is [neg, digits] with no leading zero and no negative zero.
S_0 == <<"0">>
S_MaxInt64 == <<"9","2","2","3","3","7","2","0","3","6","8","5","4","7","7","5","8","0","7">>
S_MinInt64Digits == <<"9","2","2","3","3","7","2","0","3","6","8","5","4","7","7","5","8","0","8">>
IntZero == [neg |-> FALSE, digits |-> S_0]

IsDigits(s) == s # <<>> /\ \A i \in 1..Len(s) : IsIn(Digits, s[i])

RECURSIVE StripLeadingZeros(_)
StripLeadingZeros(d) ==
    IF Len(d) > 1 /\ Head(d) = "0" THEN StripLeadingZeros(Tail(d)) ELSE d

\* a <= b for digit strings of the same length
RECURSIVE DigitsLeq(_, _)
DigitsLeq(a, b) ==
    IF a = <<>> THEN TRUE
    ELSE IF Head(a) # Head(b) THEN IndexIn(Digits, Head(a)) < IndexIn(Digits, Head(b))
    ELSE DigitsLeq(Tail(a), Tail(b))

\* the magnitude d (no leading zero) is at most the magnitude lim
MagnitudeLeq(d, lim) == Len(d) < Len(lim) \/ (Len(d) = Len(lim) /\ DigitsLeq(d, lim))

\* the sign and the rest of a numeral
HasSign(s) == s # <<>> /\ Head(s) \in {"+", "-"}
Unsigned(s) == IF HasSign(s) THEN Tail(s) ELSE s

\* the int64 a base-10 numeral denotes, saturated at the limits with a range
\* error as strconv.ParseInt does
DecimalInt64(s) ==
    LET neg == s # <<>> /\ Head(s) = "-"
        d == StripLeadingZeros(Unsigned(s))
        lim == IF neg THEN S_MinInt64Digits ELSE S_MaxInt64
    IN  IF MagnitudeLeq(d, lim)
        THEN [val |-> [neg |-> neg /\ d # S_0, digits |-> d], err |-> "nil"]
        ELSE [val |-> [neg |-> neg, digits |-> lim], err |-> "range"]

\* strconv.Atoi(s) on a 64-bit platform: base 10, an optional sign and digits
Atoi(s) ==
    IF IsDigits(Unsigned(s)) THEN DecimalInt64(s)
    ELSE [val |-> IntZero, err |-> "syntax"]

\* strconv.ParseInt(s, 0, 64).  A text that does not start with 0 is read in
\* base 10: digits are evaluated, anything else is a syntax error with value
\* 0, as are the empty text and a lone sign.  The forms base 0 adds (a leading
\* 0 with or without x, o, b, and underscores) are not evaluated by this model.
ParseInt(s) ==
    LET u == Unsigned(s)
    IN  IF u = <<>> THEN [val |-> IntZero, err |-> "syntax"]
        ELSE IF u = S_0 THEN [val |-> IntZero, err |-> "nil"]
        ELSE IF Head(u) = "0" \/ \E i \in 1..Len(u) : u[i] = "_"
        THEN [val |-> [neg |-> FALSE, digits |-> <<"?">>], err |-> "unmodelled"]
        ELSE IF IsDigits(u) THEN DecimalInt64(s)
        ELSE [val |-> IntZero, err |-> "syntax"]

\* A float32 is kept as the decimal numeral it is nearest to: [neg, digits,
\* exp] stands for the float32 nearest to digits * 10^exp, with no leading and
\* no trailing zero in digits; infinity has the digits "Inf".
S_Inf == <<"I","n","f">>
FloatZero == [neg |-> FALSE, digits |-> S_0, exp |-> 0]
FloatUnmodelled == [neg |-> FALSE, digits |-> <<"?">>, exp |-> 0]

\* the first 17 digits of 2^128 - 2^103, above which a numeral rounds to
\* infinity in float32
S_MaxFloat32 == <<"3","4","0","2","8","2","3","5","6","7","7","9","7","3","3","6","6">>
MaxFloat32Order == 38
MaxMantissaLen == 17
MaxExpDigits == 4
HugeExp == 10000

RECURSIVE DigitsToNat(_)
DigitsToNat(d) ==
    IF d = <<>> THEN 0
    ELSE DigitsToNat(SubSeq(d, 1, Len(d) - 1)) * 10 + (IndexIn(Digits, d[Len(d)]) - 1)

RECURSIVE TrailingZeros(_)
TrailingZeros(d) ==
    IF Len(d) > 1 /\ d[Len(d)] = "0" THEN 1 + TrailingZeros(SubSeq(d, 1, Len(d) - 1))
    ELSE 0

RECURSIVE PadZeros(_, _)
PadZeros(d, n) == IF Len(d) >= n THEN d ELSE PadZeros(d \o S_0, n)

\* the position of the exponent letter in s, or 0
ExpAt(s) ==
    LET at == {i \in 1..Len(s) : s[i] \in {"e", "E"}}
    IN  IF at = {} THEN 0 ELSE MinOf(at)

\* the float32 for mantissa digits m and exponent e, with a range error and
\* infinity when it is too large
DecimalFloat32(neg, m, e) ==
    LET d0 == StripLeadingZeros(m)
        tz == TrailingZeros(d0)
        d == SubSeq(d0, 1, Len(d0) - tz)
        x == e + tz
        order == Len(d) - 1 + x
    IN  IF d = S_0 THEN [val |-> FloatZero, err |-> "nil"]
        ELSE IF Len(d) > MaxMantissaLen THEN [val |-> FloatUnmodelled, err |-> "unmodelled"]
        ELSE IF order < MaxFloat32Order
                \/ (order = MaxFloat32Order
                    /\ DigitsLeq(PadZeros(d, MaxMantissaLen), S_MaxFloat32))
        THEN [val |-> [neg |-> neg, digits |-> d, exp |-> x], err |-> "nil"]
        ELSE [val |-> [neg |-> neg, digits |-> S_Inf, exp |-> 0], err |-> "range"]

\* the characters that can occur in some numeral strconv.ParseFloat accepts
\* (decimal and hexadecimal floats, exponents, inf, infinity, nan)
FloatLiteralChars ==
    {"+", "-", "_", ".", "x", "X", "p", "P", "a", "b", "c", "d", "e", "f",
     "A", "B", "C", "D", "E", "F", "i", "I", "n", "N", "t", "T", "y", "Y"}
    \cup {Digits[i] : i \in 1..Len(Digits)}

\* strconv.ParseFloat(s, 32).  Numerals made of an optional sign, digits and
\* an optional exponent without a minus sign are evaluated; a text with a
\* character no numeral can hold, the empty text and a lone sign are syntax
\* errors with value 0; the other forms (fractions, negative exponents,
\* hexadecimal, inf, nan, underscores) are not evaluated by this model.
ParseFloat(s) ==
    LET neg == s # <<>> /\ Head(s) = "-"
        u == Unsigned(s)
        at == ExpAt(u)
        m == IF at = 0 THEN u ELSE SubSeq(u, 1, at - 1)
        ex == IF at = 0 THEN S_0
              ELSE LET r == SubSeq(u, at + 1, Len(u))
                   IN  IF r # <<>> /\ Head(r) = "+" THEN Tail(r) ELSE r
    IN  IF u = <<>> \/ \E i \in 1..Len(s) : s[i] \notin FloatLiteralChars
        THEN [val |-> FloatZero, err |-> "syntax"]
        ELSE IF IsDigits(m) /\ IsDigits(ex)
        THEN DecimalFloat32(neg, m,
                            IF Len(StripLeadingZeros(ex)) > MaxExpDigits THEN HugeExp
                            ELSE DigitsToNat(ex))
        ELSE [val |-> FloatUnmodelled, err |-> "unmodelled"]
S_on == <<"o","n">>
S_yes == <<"y","e","s">>
S_enabled == <<"e","n","a","b","l","e","d">>
S_true == <<"t","r","u","e">>
S_1 == <<"1">>

\* f.Bool()
FlagBool(f) ==
    IF f.Value = Nil THEN Nil
    ELSE LET v == ToLower(TrimSpace(f.Value[1]))
         IN  Ptr(v \in {S_1, S_on, S_yes, S_enabled, S_true})

\* f.Int64(): the error of ParseInt is dropped
FlagInt64(f) ==
    IF f.Value = Nil THEN Nil ELSE Ptr(ParseInt(TrimSpace(f.Value[1])).val)

\* f.Int(): the error of Atoi is dropped
FlagInt(f) ==
    IF f.Value = Nil THEN Nil ELSE Ptr(Atoi(TrimSpace(f.Value[1])).val)

\* f.Float(): the error of ParseFloat is dropped
FlagFloat(f) ==
    IF f.Value = Nil THEN Nil ELSE Ptr(ParseFloat(TrimSpace(f.Value[1])).val)

\* f.Float64(): parses with bitSize 32 too and widens the float32
FlagFloat64(f) ==
    IF f.Value = Nil THEN Nil ELSE Ptr(ParseFloat(TrimSpace(f.Value[1])).val)
\* f.String()
FlagString(f) == IF f.Value = Nil THEN Nil ELSE f.Value
\* -------------------------------------------------------------------- state
VARIABLES
    files,      \* the file system: path -> bytes (Absent: no such file)
    web,        \* what an HTTP GET of a URL yields (Absent: request fails)
    env,        \* the process environment: name -> Nil (unset) or Ptr(value)
    doc,        \* the *Configuration the caller holds (Nil before Load)
    lastOp,     \* the operation that ran last
    lastKey,    \* its argument (source, key, group id or text)
    lastErr,    \* the error it returned
    result,     \* the value it returned
    panicked,   \* TRUE when it ended in a run-time panic
    wrote,      \* TRUE when it called os.WriteFile
    edits,      \* number of external changes made to a source so far
    text        \* the text waiting to be interpolated

vars == <<files, web, env, doc, lastOp, lastKey, lastErr, result, panicked, wrote, edits, text>>

\* ------------------------------------------------------------------ inputs
SrcLocal == <<"c">>
SrcHttp == S_http \o <<"h">>
SrcHttps == S_https \o <<"h">>
Sources == {SrcLocal, SrcHttp, SrcHttps}

S_H == <<"H">>
EnvNames == {S_H}
Envs == [EnvNames -> {Nil, Ptr(<<"x">>)}]

S_Main == <<"M","a","i","n">>
S_main == <<"m","a","i","n">>
S_MAIN == <<"M","A","I","N">>

\* a JSON database / endpoint / notification object carrying the given members
JDb(id, group, conn) ==
    [GroupID |-> group, ID |-> id, ConnectionString |-> conn,
     StorageType |-> Nil, ParameterPlaceholder |-> Nil, InterpolateTables |-> Nil,
     StringEnclosingChar |-> Nil, StringEscapeChar |-> Nil,
     ReservedWordEscapeChar |-> Nil]
JEp(id, group, addr) == [ID |-> id, Address |-> addr, GroupID |-> group]
JNf(id, host) == [ID |-> id, APIHost |-> host]

\* connection strings with and without ${NAME} tokens
ConnTexts == {<<"$","{","H","}">>, <<"a","$","{","H","}">>, <<"a">>}

\* the bytes a source of the Load / Save / Reload behaviours may hold
IOContents ==
    {NoBytes, BadBytes, JsonBytes(JNoDoc)}
    \cup {JsonBytes([JNoDoc EXCEPT !.Databases = Ptr(<<JDb(Ptr(S_Main), Nil, Ptr(t))>>)]) :
            t \in ConnTexts}

NoFiles == [s \in Sources |-> Absent]

\* --------------------------------------------------------------------- Init
\* One source holds bytes, no document is loaded yet.
Init ==
    /\ \E s \in Sources, b \in IOContents :
         IF IsLocalSource(s)
         THEN files = [NoFiles EXCEPT ![s] = b] /\ web = NoFiles
         ELSE web = [NoFiles EXCEPT ![s] = b] /\ files = NoFiles
    /\ env \in Envs
    /\ doc = Nil
    /\ lastOp = "none"
    /\ lastKey = <<>>
    /\ lastErr = ErrNone
    /\ result = Nil
    /\ panicked = FALSE
    /\ wrote = FALSE
    /\ edits = 0
    /\ text = <<>>

\* ------------------------------------------------------------------ actions
\* Load(source): the caller keeps the returned document
Load ==
    \E source \in Sources :
       LET r == load(source, files, web)
       IN  /\ doc' = r.config
           /\ lastErr' = r.err
           /\ lastOp' = "Load"
           /\ lastKey' = source
           /\ result' = Nil
           /\ panicked' = FALSE
           /\ wrote' = FALSE
           /\ UNCHANGED <<files, web, env, edits, text>>

\* the guard at the top of Save: TRUE when Save returns ErrSaveNotLocalFile
SaveRejects(c) == c.local

\* os.WriteFile(name, b, perm): fails for the empty name, and otherwise
\* succeeds or fails as the file system decides (ok)
WriteFile(fs, name, b, ok) ==
    IF ok /\ name \in DOMAIN fs
    THEN [fs |-> [fs EXCEPT ![name] = b], err |-> ErrNone]
    ELSE [fs |-> fs, err |-> ErrWrite]

\* a variant of Save that accepts a local document and writes the resolved
\* connection strings
SaveResolved ==
    /\ doc # Nil
    /\ LET c == doc[1]
           rc == [c EXCEPT !.Databases =
                     IF @ = Nil THEN @
                     ELSE Ptr([i \in 1..Len(@[1]) |->
                            [@[1][i] EXCEPT !.ConnectionString =
                                 interpolateEnvVars(@, env)]])]
       IN  IF ~c.local
           THEN /\ lastErr' = ErrSaveNotLocalFile
                /\ wrote' = FALSE
                /\ files' = files
           ELSE \E ok \in BOOLEAN :
                  LET w == WriteFile(files, c.FileName, Marshal(rc), ok)
                  IN  /\ lastErr' = w.err
                      /\ wrote' = TRUE
                      /\ files' = w.fs
    /\ lastOp' = "Save"
    /\ lastKey' = <<>>
    /\ result' = Nil
    /\ panicked' = FALSE
    /\ UNCHANGED <<web, env, doc, edits, text>>

\* a variant of Save that marks the document after a write
SaveMarksDocument ==
    /\ doc # Nil
    /\ LET c == doc[1]
       IN  IF SaveRejects(c)
           THEN /\ lastErr' = ErrSaveNotLocalFile
                /\ wrote' = FALSE
                /\ files' = files
                /\ doc' = doc
           ELSE \E ok \in BOOLEAN :
                  LET w == WriteFile(files, c.FileName, Marshal(c), ok)
                  IN  /\ lastErr' = w.err
                      /\ wrote' = TRUE
                      /\ files' = w.fs
                      /\ doc' = Ptr([c EXCEPT !.local = TRUE])
    /\ lastOp' = "Save"
    /\ lastKey' = <<>>
    /\ result' = Nil
    /\ panicked' = FALSE
    /\ UNCHANGED <<web, env, edits, text>>

\* c.Save()
Save ==
    /\ doc # Nil
    /\ LET c == doc[1]
       IN  IF SaveRejects(c)
           THEN /\ lastErr' = ErrSaveNotLocalFile
                /\ wrote' = FALSE
                /\ files' = files
           ELSE \E ok \in BOOLEAN :
                  LET w == WriteFile(files, c.FileName, Marshal(c), ok)
                  IN  /\ lastErr' = w.err
                      /\ wrote' = TRUE
                      /\ files' = w.fs
    /\ lastOp' = "Save"
    /\ lastKey' = <<>>
    /\ result' = Nil
    /\ panicked' = FALSE
    /\ UNCHANGED <<web, env, doc, edits, text>>

\* a variant of Reload that copies whatever document load returned
ReloadOverwrite(c, r) == IF r.config # Nil THEN r.config[1] ELSE c

\* what *c holds after `_, err := load(c.FileName)`: the loaded document is
\* discarded
ReloadResult(c, r) == c

\* c.Reload()
Reload ==
    /\ doc # Nil
    /\ LET c == doc[1]
           r == load(c.FileName, files, web)
       IN  /\ doc' = Ptr(ReloadResult(c, r))
           /\ lastErr' = r.err
    /\ lastOp' = "Reload"
    /\ lastKey' = <<>>
    /\ result' = Nil
    /\ panicked' = FALSE
    /\ wrote' = FALSE
    /\ UNCHANGED <<files, web, env, edits, text>>

\* Somebody else changes (or removes) the bytes at the origin of the loaded
\* document.
ExternalEdit ==
    /\ edits < MaxEdits
    /\ doc # Nil
    /\ doc[1].FileName \in Sources
    /\ \E b \in IOContents \cup {Absent} :
         LET s == doc[1].FileName
         IN  IF doc[1].local
             THEN b # files[s] /\ files' = [files EXCEPT ![s] = b] /\ web' = web
             ELSE b # web[s] /\ web' = [web EXCEPT ![s] = b] /\ files' = files
    /\ edits' = edits + 1
    /\ lastOp' = "ExternalEdit"
    /\ lastKey' = <<>>
    /\ lastErr' = ErrNone
    /\ result' = Nil
    /\ panicked' = FALSE
    /\ wrote' = FALSE
    /\ UNCHANGED <<env, doc, text>>

Next == Load \/ Save \/ Reload \/ ExternalEdit

Spec == Init /\ [][Next]_vars

\* ------------------------------------------------- the lookup specification
\* A document loaded from a local file, then read through the accessors and
\* changed by its holder through the exported Default...ID fields.
SeqsUpTo(S, n) == UNION {[1..k -> S] : k \in 0..n}

S_A == <<"A">>
S_a == <<"a">>
S_G == <<"G">>
S_g == <<"g">>
S_x == <<"x">>

DbObjects == {JDb(Ptr(id), g, Nil) : id \in {S_Main, S_main},
                                     g \in {Nil, Ptr(<<>>), Ptr(S_G), Ptr(S_g)}}
EpObjects == {JEp(Ptr(id), g, Nil) : id \in {S_A, S_a}, g \in {Nil, Ptr(<<>>), Ptr(S_G)}}
NfObjects == {JNf(id, Nil) : id \in {Nil, Ptr(S_A)}}

LookupContents ==
    {JsonBytes([JNoDoc EXCEPT !.Databases = Ptr(dbs)]) : dbs \in SeqsUpTo(DbObjects, MaxDbs)}
    \cup {JsonBytes([JNoDoc EXCEPT !.APIEndpoints = Ptr(eps), !.DefaultEndpointID = d]) :
            eps \in SeqsUpTo(EpObjects, MaxEps), d \in {Nil, Ptr(S_a)}}
    \cup {JsonBytes([JNoDoc EXCEPT !.Notifications = Ptr(nfs), !.DefaultNotificationID = d]) :
            nfs \in SeqsUpTo(NfObjects, MaxNfs), d \in {Nil, Ptr(S_A)}}

DbKeys == {<<>>, S_Main, S_main, S_MAIN}
GroupKeys == {<<>>, S_G, S_g, S_x}
EpKeys == {<<>>, S_A, S_a, S_x}
NfKeys == {<<>>, S_a, S_DEFAULT, S_x}
DefaultIDValues == {Nil, Ptr(<<>>)}

InitLookup ==
    /\ \E b \in LookupContents :
         /\ files = [NoFiles EXCEPT ![SrcLocal] = b]
         /\ doc = load(SrcLocal, files, NoFiles).config
    /\ web = NoFiles
    /\ env = [n \in EnvNames |-> Nil]
    /\ lastOp = "Load"
    /\ lastKey = SrcLocal
    /\ lastErr = ErrNone
    /\ result = Nil
    /\ panicked = FALSE
    /\ wrote = FALSE
    /\ edits = 0
    /\ text = <<>>

\* an accessor call: it returns ret (or panics) and changes nothing
Returns(op, key, ret, panic) ==
    /\ lastOp' = op
    /\ lastKey' = key
    /\ result' = ret
    /\ panicked' = panic
    /\ lastErr' = ErrNone
    /\ wrote' = FALSE
    /\ UNCHANGED <<files, web, env, doc, edits, text>>

CallGetDatabaseInfo ==
    \E id \in DbKeys : Returns("GetDatabaseInfo", id, GetDatabaseInfo(doc[1], id), FALSE)

CallGetDatabaseInfoGroup ==
    \E g \in GroupKeys :
       Returns("GetDatabaseInfoGroup", g, GetDatabaseInfoGroup(doc[1], g), FALSE)

CallGetEndpointInfoGroup ==
    \E g \in GroupKeys :
       Returns("GetEndpointInfoGroup", g, GetEndpointInfoGroup(doc[1], g), FALSE)

CallGetEndpointInfo ==
    \E id \in EpKeys :
       LET r == GetEndpointInfo(doc[1], id)
       IN  Returns("GetEndpointInfo", id, r.ret, r.panic)

CallGetNotificationInfo ==
    \E id \in NfKeys :
       LET r == GetNotificationInfo(doc[1], id)
       IN  Returns("GetNotificationInfo", id, r.ret, r.panic)

\* the holder of the document assigns c.DefaultEndpointID
SetDefaultEndpointID ==
    \E v \in DefaultIDValues :
       /\ v # doc[1].DefaultEndpointID
       /\ doc' = Ptr([doc[1] EXCEPT !.DefaultEndpointID = v])
       /\ lastOp' = "SetDefaultEndpointID"
       /\ lastKey' = <<>>
       /\ result' = Nil
       /\ panicked' = FALSE
       /\ lastErr' = ErrNone
       /\ wrote' = FALSE
       /\ UNCHANGED <<files, web, env, edits, text>>

\* the holder of the document assigns c.DefaultNotificationID
SetDefaultNotificationID ==
    \E v \in DefaultIDValues :
       /\ v # doc[1].DefaultNotificationID
       /\ doc' = Ptr([doc[1] EXCEPT !.DefaultNotificationID = v])
       /\ lastOp' = "SetDefaultNotificationID"
       /\ lastKey' = <<>>
       /\ result' = Nil
       /\ panicked' = FALSE
       /\ lastErr' = ErrNone
       /\ wrote' = FALSE
       /\ UNCHANGED <<files, web, env, edits, text>>

NextLookup ==
    \/ CallGetDatabaseInfo
    \/ CallGetDatabaseInfoGroup
    \/ CallGetEndpointInfoGroup
    \/ CallGetEndpointInfo
    \/ CallGetNotificationInfo
    \/ SetDefaultEndpointID
    \/ SetDefaultNotificationID

SpecLookup == InitLookup /\ [][NextLookup]_vars

\* ------------------------------------------ the interpolation specification
TextAlphabet == {"$", "{", "}", "H", "a"}
Texts == SeqsUpTo(TextAlphabet, MaxTextLen)

InitInterpolate ==
    /\ env \in Envs
    /\ files = NoFiles
    /\ web = NoFiles
    /\ doc = Nil
    /\ lastOp = "none"
    /\ lastKey = <<>>
    /\ lastErr = ErrNone
    /\ result = Nil
    /\ panicked = FALSE
    /\ wrote = FALSE
    /\ edits = 0
    /\ text \in Texts

\* interpolateEnvVars(text)
CallInterpolateEnvVars ==
    /\ lastOp = "none"
    /\ Returns("interpolateEnvVars", text, interpolateEnvVars(text, env), FALSE)

NextInterpolate == CallInterpolateEnvVars

SpecInterpolate == InitInterpolate /\ [][NextInterpolate]_vars

\* ------------------------------------------- the default-fill specification
\* One source holds a JSON document whose members are absent, empty or
\* supplied; the caller loads it, and the environment may store the JSON
\* encoding of the loaded document back at the source.
S_s == <<"s">>
S_F == <<"F">>
S_at == <<"@">>
S_f == <<"f">>
S_DEFAULT1 == S_DEFAULT \o <<"1">>

OptTexts == {Nil, Ptr(<<>>), Ptr(S_a)}

\* documents that vary the top-level members
TopLevelDocs ==
    {[JNoDoc EXCEPT !.DefaultDatabaseID = dd, !.DefaultEndpointID = de,
                    !.DefaultNotificationID = dn, !.CookieDomain = cd,
                    !.JWTSecret = js, !.FileName = fn] :
       dd \in OptTexts, de \in OptTexts, dn \in OptTexts, cd \in OptTexts,
       js \in OptTexts, fn \in {Nil, Ptr(S_f)}}

\* database objects that vary the members load fills in
LoadDbObjects ==
    {[JDb(Ptr(S_A), Nil, Nil) EXCEPT !.StorageType = st, !.ParameterPlaceholder = pp,
                                     !.InterpolateTables = it] :
       st \in {Nil, Ptr(<<>>), Ptr(S_s), Ptr(S_F)},
       pp \in {Nil, Ptr(<<>>), Ptr(S_at)},
       it \in {Nil, Ptr(TRUE), Ptr(FALSE)}}
    \cup
    {[JDb(Ptr(S_A), Nil, Nil) EXCEPT !.StringEnclosingChar = en, !.StringEscapeChar = es,
                                     !.ReservedWordEscapeChar = rw] :
       en \in OptTexts, es \in OptTexts, rw \in OptTexts}

LoadNfObjects == {JNf(id, Nil) : id \in {Nil, Ptr(<<>>), Ptr(S_A), Ptr(S_DEFAULT1)}}

LoadContents ==
    {NoBytes, BadBytes}
    \cup {JsonBytes(j) : j \in TopLevelDocs}
    \cup {JsonBytes([JNoDoc EXCEPT !.Databases = Ptr(l)]) :
             l \in SeqsUpTo(LoadDbObjects, MaxLoadDbs)}
    \cup {JsonBytes([JNoDoc EXCEPT !.Notifications = Ptr(l)]) :
             l \in SeqsUpTo(LoadNfObjects, MaxLoadNfs)}

InitLoad ==
    /\ \E s \in Sources, b \in LoadContents :
         IF IsLocalSource(s)
         THEN files = [NoFiles EXCEPT ![s] = b] /\ web = NoFiles
         ELSE web = [NoFiles EXCEPT ![s] = b] /\ files = NoFiles
    /\ env \in {[n \in EnvNames |-> Nil]}
    /\ doc = Nil
    /\ lastOp = "none"
    /\ lastKey = <<>>
    /\ lastErr = ErrNone
    /\ result = Nil
    /\ panicked = FALSE
    /\ wrote = FALSE
    /\ edits = 0
    /\ text = <<>>

\* the environment stores json.MarshalIndent of the loaded document at the
\* document's source
Reserialize ==
    /\ lastOp = "Load"
    /\ lastErr = ErrNone
    /\ doc # Nil
    /\ LET s == doc[1].FileName
           b == Marshal(doc[1])
       IN  IF doc[1].local
           THEN files' = [files EXCEPT ![s] = b] /\ web' = web
           ELSE web' = [web EXCEPT ![s] = b] /\ files' = files
    /\ lastOp' = "Reserialize"
    /\ lastKey' = doc[1].FileName
    /\ lastErr' = ErrNone
    /\ result' = Nil
    /\ panicked' = FALSE
    /\ wrote' = FALSE
    /\ UNCHANGED <<env, doc, edits, text>>

NextLoad == Load \/ Reserialize

SpecLoad == InitLoad /\ [][NextLoad]_vars

\* ----------------------------------------- the driver-default specification
\* A local file holds a JSON document whose database records name a driver;
\* it is loaded by the load of unnamed/part_006 and by the load of the
\* LoadConfig revision.
S_SqlServer == <<"S","q","l","S","e","r","v","e","r">>
S_mysql == <<"m","y","s","q","l">>
S_server == <<"s","e","r","v","e","r">>
S_FILE == <<"F","I","L","E">>
S_q == <<"q">>

JDbDriver(driver, st, iq, df, udf) ==
    [GroupID |-> Nil, ID |-> Ptr(S_A), ConnectionString |-> Nil,
     DriverName |-> driver, StorageType |-> st, ParameterPlaceholder |-> Nil,
     InterpolateTables |-> Nil, StringEnclosingChar |-> Nil, StringEscapeChar |-> Nil,
     IdentityQuery |-> iq, DateFunction |-> df, UTCDateFunction |-> udf,
     ReservedWordEscapeChar |-> Nil]

DriverDbObjects ==
    {JDbDriver(driver, st, iq, df, udf) :
       driver \in {Nil, Ptr(S_mssql), Ptr(S_SqlServer), Ptr(S_mysql)},
       st \in {Nil, Ptr(S_server), Ptr(S_FILE)},
       iq \in {Nil, Ptr(<<>>), Ptr(S_q)},
       df \in {Nil, Ptr(S_q)},
       udf \in {Ptr(<<>>), Ptr(S_q)}}

DriverContents ==
    {JsonBytes([JNoDoc EXCEPT !.Databases = Ptr(l)]) :
       l \in SeqsUpTo(DriverDbObjects, MaxDriverDbs)}

InitDriver ==
    /\ \E b \in DriverContents : files = [NoFiles EXCEPT ![SrcLocal] = b]
    /\ web = NoFiles
    /\ env \in {[n \in EnvNames |-> Nil]}
    /\ doc = Nil
    /\ lastOp = "none"
    /\ lastKey = <<>>
    /\ lastErr = ErrNone
    /\ result = Nil
    /\ panicked = FALSE
    /\ wrote = FALSE
    /\ edits = 0
    /\ text = <<>>

\* the caller keeps the document that a load of the given revision returned
Loaded(op, source, r) ==
    /\ doc' = r.config
    /\ lastErr' = r.err
    /\ lastOp' = op
    /\ lastKey' = source
    /\ result' = Nil
    /\ panicked' = FALSE
    /\ wrote' = FALSE
    /\ UNCHANGED <<files, web, env, edits, text>>

\* Load(source) of unnamed/part_006
LoadPart006 ==
    \E source \in {SrcLocal, SrcHttps} :
       Loaded("LoadPart006", source, loadPart006(source, files, web))

\* LoadConfig(Source) of the LoadConfig revision
LoadConfig ==
    \E Source \in {SrcLocal, SrcHttps} :
       Loaded("LoadConfig", Source, loadLoadConfig(Source, files, web))

NextDriver == LoadPart006 \/ LoadConfig

SpecDriver == InitDriver /\ [][NextDriver]_vars

\* ------------------------------------------------- the origin specification
\* A local file and a web address hold documents that may carry a FileName
\* member of their own; the document is loaded with LoadConfig or with Load,
\* and a document of the Load revision is then reloaded or saved.
OriginContents ==
    {JsonBytes([JNoDoc EXCEPT !.FileName = f, !.DefaultDatabaseID = d]) :
       f \in {Nil, Ptr(SrcLocal), Ptr(SrcHttps)}, d \in {Nil, Ptr(S_A)}}

InitOrigin ==
    /\ \E b \in OriginContents : files = [NoFiles EXCEPT ![SrcLocal] = b]
    /\ \E b \in OriginContents : web = [NoFiles EXCEPT ![SrcHttps] = b]
    /\ env \in {[n \in EnvNames |-> Nil]}
    /\ doc = Nil
    /\ lastOp = "none"
    /\ lastKey = <<>>
    /\ lastErr = ErrNone
    /\ result = Nil
    /\ panicked = FALSE
    /\ wrote = FALSE
    /\ edits = 0
    /\ text = <<>>

\* the caller holds a *Configuration of the Load revision
HoldsLoadDocument == doc # Nil /\ "local" \in DOMAIN doc[1]

ReloadHeld == HoldsLoadDocument /\ Reload

SaveHeld == HoldsLoadDocument /\ Save

NextOrigin == LoadConfig \/ Load \/ ReloadHeld \/ SaveHeld

SpecOrigin == InitOrigin /\ [][NextOrigin]_vars
\* -------------------------------------------- the value-typed specification
\* The local file holds a document of the driver-default specification and is
\* loaded with the LoadConfig of unnamed/part_002.
LoadConfigPart002 ==
    \E Source \in {SrcLocal, SrcHttps} :
       Loaded("LoadConfigPart002", Source, loadPart002(Source, files, web))

NextValueTyped == LoadConfigPart002

SpecValueTyped == InitDriver /\ [][NextValueTyped]_vars
\* ---------------------------------------------- the endpoints specification
\* A document with or without an APIEndpoints section is loaded with
\* LoadConfig; the caller asks for endpoints by id and by group.
EndpointContents ==
    {JsonBytes([JNoDoc EXCEPT !.APIEndpoints = eps, !.DefaultEndpointID = d]) :
       eps \in {Nil} \cup {Ptr(l) : l \in SeqsUpTo(EpObjects, MaxEps)},
       d \in {Nil, Ptr(S_a)}}

InitEndpoints ==
    /\ \E b \in EndpointContents :
         /\ files = [NoFiles EXCEPT ![SrcLocal] = b]
         /\ doc = loadLoadConfig(SrcLocal, files, NoFiles).config
    /\ web = NoFiles
    /\ env = [n \in EnvNames |-> Nil]
    /\ lastOp = "LoadConfig"
    /\ lastKey = SrcLocal
    /\ lastErr = ErrNone
    /\ result = Nil
    /\ panicked = FALSE
    /\ wrote = FALSE
    /\ edits = 0
    /\ text = <<>>

CallGetEndpointAddressLoadConfig ==
    \E id \in EpKeys :
       LET r == GetEndpointAddressLoadConfig(doc[1], id)
       IN  Returns("GetEndpointAddress", id, r.ret, r.panic)

CallGetEndpointInfoLoadConfig ==
    \E id \in EpKeys :
       LET r == GetEndpointInfoLoadConfig(doc[1], id)
       IN  Returns("GetEndpointInfo", id, r.ret, r.panic)

CallGetEndpointInfoGroupLoadConfig ==
    \E g \in GroupKeys :
       LET r == GetEndpointInfoGroupLoadConfig(doc[1], g)
       IN  Returns("GetEndpointInfoGroup", g, r.ret, r.panic)

NextEndpoints ==
    \/ CallGetEndpointAddressLoadConfig
    \/ CallGetEndpointInfoLoadConfig
    \/ CallGetEndpointInfoGroupLoadConfig

SpecEndpoints == InitEndpoints /\ [][NextEndpoints]_vars
\* ---------------------------------------------- the lifecycle specification
\* The behaviours of Spec, with lookups made on the held document in between.
LifeKeys == {S_Main, S_x}

CallLookup ==
    /\ doc # Nil
    /\ \/ \E id \in LifeKeys :
            Returns("GetDatabaseInfo", id, GetDatabaseInfo(doc[1], id), FALSE)
       \/ \E id \in LifeKeys :
            Returns("GetDatabaseInfoGroup", id, GetDatabaseInfoGroup(doc[1], id), FALSE)

NextLife == Load \/ Save \/ Reload \/ ExternalEdit \/ CallLookup

SpecLife == Init /\ [][NextLife]_vars
\* ----------------------------------------------- the sections specification
\* The document is loaded from a local file whose JSON carries domains,
\* sources or OAuth providers (duplicate and empty IDs included); the caller
\* looks records up by name or id.
JDomain(name, host) == [Name |-> name, Host |-> host]
JSource(id, type) == [ID |-> id, Type |-> type]
JOAuth(id, client) == [ID |-> id, ClientID |-> client]

SectionIDs == {Nil, Ptr(S_A), Ptr(S_a)}
SectionTags == {Nil, Ptr(S_x)}

SectionContents ==
    {JsonBytes([JNoDoc EXCEPT !.Domains = Ptr(l)]) :
       l \in SeqsUpTo({JDomain(n, h) : n \in SectionIDs, h \in SectionTags}, MaxSectionRecs)}
    \cup {JsonBytes([JNoDoc EXCEPT !.Sources = Ptr(l)]) :
            l \in SeqsUpTo({JSource(i, t) : i \in SectionIDs, t \in SectionTags},
                           MaxSectionRecs)}
    \cup {JsonBytes([JNoDoc EXCEPT !.OAuths = Ptr(l)]) :
            l \in SeqsUpTo({JOAuth(i, t) : i \in SectionIDs, t \in SectionTags},
                           MaxSectionRecs)}

SectionKeys == {<<>>, S_A, S_a, S_x}

InitSections ==
    /\ \E b \in SectionContents : files = [NoFiles EXCEPT ![SrcLocal] = b]
    /\ web = NoFiles
    /\ env \in {[n \in EnvNames |-> Nil]}
    /\ doc = load(SrcLocal, files, NoFiles).config
    /\ lastOp = "Load"
    /\ lastKey = SrcLocal
    /\ lastErr = ErrNone
    /\ result = Nil
    /\ panicked = FALSE
    /\ wrote = FALSE
    /\ edits = 0
    /\ text = <<>>

CallGetDomainInfo ==
    \E k \in SectionKeys : Returns("GetDomainInfo", k, GetDomainInfo(doc[1], k), FALSE)

CallGetSourceInfo ==
    \E k \in SectionKeys : Returns("GetSourceInfo", k, GetSourceInfo(doc[1], k), FALSE)

CallGetOAuthInfo ==
    \E k \in SectionKeys : Returns("GetOAuthInfo", k, GetOAuthInfo(doc[1], k), FALSE)

NextSections == CallGetDomainInfo \/ CallGetSourceInfo \/ CallGetOAuthInfo

SpecSections == InitSections /\ [][NextSections]_vars
\* --------------------------------------------------- the flag specification
\* The document is loaded from a local file whose JSON carries a Flags list;
\* the caller then asks for flags by key.
S_API_KEY == <<"A","P","I","_","K","E","Y">>
S_API_dash_KEY == <<"A","P","I","-","K","E","Y">>
S_APIKEY == <<"A","P","I","K","E","Y">>
S_api_key == <<"a","p","i","_","k","e","y">>
S_api_dash_key == <<"a","p","i","-","k","e","y">>
S_apikey == <<"a","p","i","k","e","y">>
S_A_P_dash_I == <<"A","_","P","-","I">>
S_nokey == <<"n","o">>

StoredFlagKeys == {S_API_KEY, S_API_dash_KEY, S_APIKEY, S_api_key, S_A_P_dash_I}
FlagValues == {Nil, Ptr(<<"1">>), Ptr(<<"x">>)}
JFlag(key, value) == [Key |-> Ptr(key), Value |-> value]
FlagObjects == {JFlag(k, v) : k \in StoredFlagKeys, v \in FlagValues}

FlagContents ==
    {JsonBytes(JNoDoc)}
    \cup {JsonBytes([JNoDoc EXCEPT !.Flags = Ptr(fl)]) : fl \in SeqsUpTo(FlagObjects, MaxFlags)}

\* the keys a caller asks for
FlagKeys ==
    {S_apikey, S_api_dash_key, S_API_KEY, S_A_P_dash_I, S_nokey,
     <<" ">> \o S_apikey \o <<" ">>}

InitFlag ==
    /\ \E b \in FlagContents : files = [NoFiles EXCEPT ![SrcLocal] = b]
    /\ web = NoFiles
    /\ env \in {[n \in EnvNames |-> Nil]}
    /\ doc = load(SrcLocal, files, NoFiles).config
    /\ lastOp = "Load"
    /\ lastKey = SrcLocal
    /\ lastErr = ErrNone
    /\ result = Nil
    /\ panicked = FALSE
    /\ wrote = FALSE
    /\ edits = 0
    /\ text = <<>>

\* c.Flag(key)
CallFlag ==
    \E key \in FlagKeys : Returns("Flag", key, Ptr(Flag(doc[1], key)), FALSE)

NextFlag == CallFlag

SpecFlag == InitFlag /\ [][NextFlag]_vars

\* --------------------------------------------- the flag value specification
\* The document is loaded from a local file whose JSON carries one flag; the
\* caller finds the flag by key and converts its value.
S_K == <<"K">>
S_z == <<"z">>
S_12 == <<"1","2">>
S_sp_m7_sp == <<" ","-","7"," ">>
S_20nines == <<"9","9","9","9","9","9","9","9","9","9","9","9","9","9","9","9","9","9","9","9">>
S_m20nines == <<"-","9","9","9","9","9","9","9","9","9","9","9","9","9","9","9","9","9","9","9","9">>
S_1e39 == <<"1","e","3","9">>
S_2e3 == <<"2","e","3">>
S_YES == <<"Y","E","S">>
S_plus3 == <<"+","3">>

FlagValueTexts == {S_1, S_on, S_z, S_12, S_sp_m7_sp, S_20nines, S_m20nines, S_1e39, S_2e3, S_true, S_YES, S_0, S_plus3, <<>>}

FlagValueContents ==
    {JsonBytes([JNoDoc EXCEPT !.Flags = Ptr(<<JFlag(S_K, v)>>)]) :
       v \in {Nil} \cup {Ptr(t) : t \in FlagValueTexts}}

InitFlagValue ==
    /\ \E b \in FlagValueContents : files = [NoFiles EXCEPT ![SrcLocal] = b]
    /\ web = NoFiles
    /\ env \in {[n \in EnvNames |-> Nil]}
    /\ doc = load(SrcLocal, files, NoFiles).config
    /\ lastOp = "Load"
    /\ lastKey = SrcLocal
    /\ lastErr = ErrNone
    /\ result = Nil
    /\ panicked = FALSE
    /\ wrote = FALSE
    /\ edits = 0
    /\ text = <<>>

ValueKeys == {S_K, S_nokey}

\* c.Flag(key).Bool() and the other conversions; the pointer returned is kept
CallFlagBool ==
    \E key \in ValueKeys : Returns("Bool", key, FlagBool(Flag(doc[1], key)), FALSE)

CallFlagInt64 ==
    \E key \in ValueKeys : Returns("Int64", key, FlagInt64(Flag(doc[1], key)), FALSE)

CallFlagInt ==
    \E key \in ValueKeys : Returns("Int", key, FlagInt(Flag(doc[1], key)), FALSE)

CallFlagFloat ==
    \E key \in ValueKeys : Returns("Float", key, FlagFloat(Flag(doc[1], key)), FALSE)

CallFlagFloat64 ==
    \E key \in ValueKeys : Returns("Float64", key, FlagFloat64(Flag(doc[1], key)), FALSE)

CallFlagString ==
    \E key \in ValueKeys : Returns("String", key, FlagString(Flag(doc[1], key)), FALSE)

NextFlagValue ==
    \/ CallFlagBool
    \/ CallFlagInt64
    \/ CallFlagInt
    \/ CallFlagFloat
    \/ CallFlagFloat64
    \/ CallFlagString

SpecFlagValue == InitFlagValue /\ [][NextFlagValue]_vars
\* =================================================================== claims
\* helpers of the claims
IsRemoteSource(s) == HasPrefix(s, S_http) \/ HasPrefix(s, S_https)

\* the bytes now at the origin of document c
OriginBytes(c) ==
    IF c.FileName \notin Sources THEN Absent
    ELSE IF c.local THEN files[c.FileName] ELSE web[c.FileName]

\* the connection strings carried by the JSON object in bytes b
ConnStrings(b) ==
    IF b.kind = "json" /\ b.doc.Databases # Nil
    THEN [i \in 1..Len(b.doc.Databases[1]) |-> StrOf(b.doc.Databases[1][i].ConnectionString)]
    ELSE <<>>

\* text[i..j] is a ${NAME} token
IsToken(t, i, j) ==
    /\ j >= i + 3
    /\ j <= Len(t)
    /\ t[i] = "$"
    /\ t[i + 1] = "{"
    /\ t[j] = "}"
    /\ \A k \in (i + 2)..(j - 1) : IsNameCh(t[k])

HasToken(t) == \E i \in 1..Len(t), j \in 1..Len(t) : IsToken(t, i, j)

RECURSIVE Flatten(_)
Flatten(ss) == IF ss = <<>> THEN <<>> ELSE Head(ss) \o Flatten(Tail(ss))

\* t with every token replaced by the value of its variable, a token of an
\* unset variable by nothing; a character outside every token stays
Substituted(t, e) ==
    Flatten([p \in 1..Len(t) |->
        IF \E j \in 1..Len(t) : IsToken(t, p, j)
        THEN LET j == CHOOSE k \in 1..Len(t) : IsToken(t, p, k)
                 name == SubSeq(t, p + 2, j - 1)
             IN  IF name \notin DOMAIN e \/ e[name] = Nil THEN <<>> ELSE e[name][1]
        ELSE IF \E i \in 1..Len(t), j \in 1..Len(t) : IsToken(t, i, j) /\ i < p /\ p <= j
        THEN <<>>
        ELSE <<t[p]>>])

\* C1: Save on a document loaded from an http:// or https:// source returns
\* ErrSaveNotLocalFile and calls no file write.
C1_SaveRejectsRemote ==
    (lastOp = "Save" /\ doc # Nil /\ IsRemoteSource(doc[1].FileName))
        => (lastErr = ErrSaveNotLocalFile /\ ~wrote)

\* C2: Save on a document loaded from a local path writes the serialized
\* document to that path and never returns ErrSaveNotLocalFile; it returns no
\* error when the write succeeds.
C2_SaveWritesLocal ==
    (lastOp = "Save" /\ doc # Nil /\ doc[1].FileName \in Sources
        /\ ~IsRemoteSource(doc[1].FileName))
        => /\ lastErr # ErrSaveNotLocalFile
           /\ wrote
           /\ (lastErr = ErrNone => files[doc[1].FileName] = Marshal(doc[1]))

\* C3: after a Reload that returned no error the document object holds what
\* load yields for the bytes now at its origin.
C3_ReloadRefreshes ==
    (lastOp = "Reload" /\ lastErr = ErrNone)
        => doc = load(doc[1].FileName, files, web).config

\* C4: a Reload that returns an error leaves every field of the document as
\* it was before the call.
C4_FailedReloadKeepsDocument ==
    [][(lastOp' = "Reload" /\ lastErr' # ErrNone) => doc' = doc]_vars

C4_Witness ==
    /\ lastOp = "Reload"
    /\ lastErr = ErrNoDataFromSource
    /\ doc # Nil
    /\ doc[1].Databases # Nil
    /\ OriginBytes(doc[1]) = NoBytes

C6_VisibleConnInterpolated ==
    (/\ lastOp \in {"Load", "Save"}
     /\ edits = 0
     /\ doc # Nil
     /\ doc[1].FileName \in Sources
     /\ doc[1].Databases # Nil)
    => /\ Len(doc[1].Databases[1]) = Len(ConnStrings(OriginBytes(doc[1])))
       /\ \A i \in 1..Len(doc[1].Databases[1]) :
            doc[1].Databases[1][i].ConnectionString
              = Substituted(ConnStrings(OriginBytes(doc[1]))[i], env)

\* C7: interpolating a text replaces each token of an unset variable by the
\* empty string (a token of a set variable by its value) and keeps the text
\* outside tokens.
C7_UnsetIsEmpty ==
    lastOp = "interpolateEnvVars" => result = Substituted(lastKey, env)

C7_Witness ==
    /\ lastOp = "interpolateEnvVars"
    /\ lastKey = <<"a","$","{","H","}">>
    /\ env[S_H] = Nil
    /\ result = <<"a">>

\* the records of a collection pointer (none when the pointer is nil)
Records(coll) == IF coll = Nil THEN <<>> ELSE coll[1]

\* the first record of recs whose ID equals k up to letter case, nil if none
FirstByID(recs, k) ==
    IF \E i \in 1..Len(recs) : EqualFold(recs[i].ID, k)
    THEN Ptr(recs[CHOOSE i \in 1..Len(recs) :
                    /\ EqualFold(recs[i].ID, k)
                    /\ \A h \in 1..(i - 1) : ~EqualFold(recs[h].ID, k)])
    ELSE Nil

\* the records of recs, in order, whose GroupID is present and equals g up to
\* letter case
InGroup(recs, g) ==
    LET Member(r) == r.GroupID # Nil /\ EqualFold(r.GroupID[1], g)
    IN  SelectSeq(recs, Member)

\* C8: GetDatabaseInfo returns the record whose ID equals the key up to
\* letter case.
C8_DatabaseLookupFoldsCase ==
    lastOp = "GetDatabaseInfo"
        => result = FirstByID(Records(doc[1].Databases), lastKey)

\* C9 as stated: for every groupId both group lookups return a non-nil list
\* of exactly the records whose GroupID is present and equals groupId up to
\* letter case, in document order.
C9_GroupLookupAnyGroupId ==
    /\ lastOp = "GetDatabaseInfoGroup"
         => result = Ptr(InGroup(Records(doc[1].Databases), lastKey))
    /\ lastOp = "GetEndpointInfoGroup"
         => result = Ptr(InGroup(Records(doc[1].APIEndpoints), lastKey))

\* C9 amended: GetEndpointInfoGroup does so for every groupId and
\* GetDatabaseInfoGroup for every non-empty groupId; GetDatabaseInfoGroup
\* with the empty groupId returns an empty non-nil list.
C9_GroupLookup ==
    /\ (lastOp = "GetDatabaseInfoGroup" /\ lastKey # <<>>)
         => result = Ptr(InGroup(Records(doc[1].Databases), lastKey))
    /\ (lastOp = "GetDatabaseInfoGroup" /\ lastKey = <<>>) => result = Ptr(<<>>)
    /\ lastOp = "GetEndpointInfoGroup"
         => result = Ptr(InGroup(Records(doc[1].APIEndpoints), lastKey))

C9_Witness ==
    /\ lastOp = "GetDatabaseInfoGroup"
    /\ lastKey = S_g
    /\ Len(Records(doc[1].Databases)) = 2
    /\ doc[1].Databases[1][1].GroupID = Nil
    /\ doc[1].Databases[1][2].GroupID = Ptr(S_G)
    /\ result = Ptr(<<doc[1].Databases[1][2]>>)

\* C10: with an empty key GetEndpointInfo and GetNotificationInfo look up the
\* document's default ID, and return not-found when that default is absent or
\* empty; with a non-empty key they look up the key and ignore the default.
C10_DefaultFallback ==
    /\ lastOp = "GetEndpointInfo"
         => /\ ~panicked
            /\ result =
                 IF lastKey # <<>> THEN FirstByID(Records(doc[1].APIEndpoints), lastKey)
                 ELSE IF doc[1].DefaultEndpointID \in {Nil, Ptr(<<>>)} THEN Nil
                 ELSE FirstByID(Records(doc[1].APIEndpoints), doc[1].DefaultEndpointID[1])
    /\ lastOp = "GetNotificationInfo"
         => /\ ~panicked
            /\ result =
                 IF lastKey # <<>> THEN FirstByID(Records(doc[1].Notifications), lastKey)
                 ELSE IF doc[1].DefaultNotificationID \in {Nil, Ptr(<<>>)} THEN Nil
                 ELSE FirstByID(Records(doc[1].Notifications),
                                doc[1].DefaultNotificationID[1])

\* the stored flags of document c, in document order
StoredFlags(c) == IF c.Flags = Nil THEN <<>> ELSE c.Flags[1]

\* k and the stored key name the same flag when underscores, dashes and
\* letter case are ignored
SameFlagName(k, key) ==
    EqualFold(RemoveCh(RemoveCh(k, "_"), "-"), RemoveCh(RemoveCh(key, "_"), "-"))

\* C11: when the document stores a flag with Key "API_KEY", Flag("apikey")
\* and Flag("api-key") both return a stored flag: the first one whose key
\* equals the requested key once underscores, dashes and letter case are
\* ignored.
C11_FlagIgnoresUnderscoreDash ==
    (/\ lastOp = "Flag"
     /\ lastKey \in {S_apikey, S_api_dash_key}
     /\ \E i \in 1..Len(StoredFlags(doc[1])) : StoredFlags(doc[1])[i].Key = S_API_KEY)
    => LET fs == StoredFlags(doc[1])
           hits == {i \in 1..Len(fs) : SameFlagName(lastKey, fs[i].Key)}
       IN  result = Ptr(fs[MinOf(hits)])

\* the last operation was a load that succeeded; the bytes at the origin are
\* the JSON object the document was decoded from
LoadedOk ==
    /\ lastOp = "Load"
    /\ lastErr = ErrNone
    /\ doc # Nil
    /\ OriginBytes(doc[1]).kind = "json"

\* the JSON object the loaded document was decoded from
SourceDoc == OriginBytes(doc[1]).doc

\* the elements of an optional JSON list / of an optional list of the document
Elems(m) == IF m = Nil THEN <<>> ELSE m[1]

\* the ID a record with an empty ID must receive at the 1-based position i
SynthesizedID(i) == IF i = 1 THEN S_DEFAULT ELSE S_DEFAULT \o <<Digits[i]>>

\* C12: after a successful load, a notification record whose ID was empty in
\* the document has ID "DEFAULT" at index 0 and "DEFAULT" followed by its
\* 0-based index otherwise; a record whose ID was non-empty keeps it.
C12_NotificationIDs ==
    LoadedOk =>
      LET src == Elems(SourceDoc.Notifications)
          got == Elems(doc[1].Notifications)
      IN  /\ Len(got) = Len(src)
          /\ \A i \in 1..Len(src) :
                got[i].ID = IF StrOf(src[i].ID) = <<>> THEN SynthesizedID(i)
                            ELSE StrOf(src[i].ID)

\* two records with empty IDs were loaded and a third kind, a record with a
\* supplied ID, is covered by the other documents
C12_Witness ==
    /\ LoadedOk
    /\ Len(Elems(SourceDoc.Notifications)) = 2
    /\ \A i \in 1..2 : StrOf(Elems(SourceDoc.Notifications)[i].ID) = <<>>
    /\ Elems(doc[1].Notifications)[1].ID = S_DEFAULT
    /\ Elems(doc[1].Notifications)[2].ID = S_DEFAULT1

\* C13: on every document returned by a successful load the three default IDs
\* are present and non-empty ("DEFAULT" when the source had them absent or
\* empty), CookieDomain is present ("localhost" when absent in the source)
\* and JWTSecret is present ("defaultsecretkey" when absent in the source).
C13_TopLevelDefaults ==
    LoadedOk =>
      LET j == SourceDoc
          c == doc[1]
          IDOk(m, v) == /\ v # Nil
                        /\ v[1] # <<>>
                        /\ (m = Nil \/ m = Ptr(<<>>)) => v = Ptr(S_DEFAULT)
      IN  /\ IDOk(j.DefaultDatabaseID, c.DefaultDatabaseID)
          /\ IDOk(j.DefaultEndpointID, c.DefaultEndpointID)
          /\ IDOk(j.DefaultNotificationID, c.DefaultNotificationID)
          /\ c.CookieDomain # Nil
          /\ j.CookieDomain = Nil => c.CookieDomain = Ptr(S_localhost)
          /\ c.JWTSecret # Nil
          /\ j.JWTSecret = Nil => c.JWTSecret = Ptr(S_defaultsecretkey)

\* a document with an absent DefaultDatabaseID, an empty DefaultEndpointID
\* and no CookieDomain and JWTSecret was loaded
C13_Witness ==
    /\ LoadedOk
    /\ SourceDoc.DefaultDatabaseID = Nil
    /\ SourceDoc.DefaultEndpointID = Ptr(<<>>)
    /\ SourceDoc.DefaultNotificationID = Ptr(S_a)
    /\ SourceDoc.CookieDomain = Nil
    /\ SourceDoc.JWTSecret = Nil
    /\ doc[1].DefaultEndpointID = Ptr(S_DEFAULT)
    /\ doc[1].JWTSecret = Ptr(S_defaultsecretkey)

\* no letter of s is a lower-case letter
IsUpperCase(s) == \A i \in 1..Len(s) : ~IsIn(LowerLetters, s[i])

\* m is absent or the empty string
Unset(m) == m = Nil \/ m = Ptr(<<>>)

\* C14: on every document returned by a successful Load, each database record
\* has InterpolateTables present (true when unset in the source), non-empty
\* StringEnclosingChar (default '), StringEscapeChar (default \) and
\* ReservedWordEscapeChar (default "), a non-empty ParameterPlaceholder
\* (default ?), and an upper-case StorageType that is "SERVER" when the
\* source left it empty.
C14_DatabaseDefaults ==
    LoadedOk =>
      LET src == Elems(SourceDoc.Databases)
          got == Elems(doc[1].Databases)
          CharOk(m, v, def) == /\ v # Nil
                               /\ v[1] # <<>>
                               /\ Unset(m) => v = Ptr(def)
      IN  /\ Len(got) = Len(src)
          /\ \A i \in 1..Len(src) :
                /\ got[i].InterpolateTables # Nil
                /\ src[i].InterpolateTables = Nil => got[i].InterpolateTables = Ptr(TRUE)
                /\ CharOk(src[i].StringEnclosingChar, got[i].StringEnclosingChar, S_quote)
                /\ CharOk(src[i].StringEscapeChar, got[i].StringEscapeChar, S_backslash)
                /\ CharOk(src[i].ReservedWordEscapeChar, got[i].ReservedWordEscapeChar,
                          S_dquote)
                /\ got[i].ParameterPlaceholder # <<>>
                /\ Unset(src[i].ParameterPlaceholder) => got[i].ParameterPlaceholder = S_qmark
                /\ got[i].StorageType # <<>>
                /\ IsUpperCase(got[i].StorageType)
                /\ Unset(src[i].StorageType) => got[i].StorageType = S_SERVER

\* a database record with a lower-case StorageType and an unset
\* ParameterPlaceholder and InterpolateTables was loaded
C14_Witness ==
    /\ LoadedOk
    /\ Len(Elems(SourceDoc.Databases)) = 1
    /\ Elems(SourceDoc.Databases)[1].StorageType = Ptr(S_s)
    /\ Elems(SourceDoc.Databases)[1].ParameterPlaceholder = Nil
    /\ Elems(SourceDoc.Databases)[1].InterpolateTables = Nil
    /\ Elems(doc[1].Databases)[1].StorageType = <<"S">>
    /\ Elems(doc[1].Databases)[1].ParameterPlaceholder = S_qmark
    /\ Elems(doc[1].Databases)[1].InterpolateTables = Ptr(TRUE)

\* the last operation was a successful load by a revision that has the
\* driver block; the local file holds the JSON object it decoded
DriverLoadedOk ==
    /\ lastOp \in {"LoadPart006", "LoadConfig"}
    /\ lastErr = ErrNone
    /\ doc # Nil
    /\ lastKey = SrcLocal
    /\ files[SrcLocal].kind = "json"

\* the record is a SQL Server record: its StorageType, defaulted and
\* upper-cased, is "SERVER" and its driver is sqlserver or mssql in any case
IsSqlServerRecord(j) ==
    /\ (IF Unset(j.StorageType) THEN S_SERVER ELSE ToUpper(j.StorageType[1])) = S_SERVER
    /\ \/ EqualFold(StrOf(j.DriverName), S_sqlserver)
       \/ EqualFold(StrOf(j.DriverName), S_mssql)

\* C15: for a SQL Server record load sets IdentityQuery to
\* "SELECT SCOPE_IDENTITY();", DateFunction to "GETDATE()" and UTCDateFunction
\* to "GETUTCDATE()" wherever they are unset or empty; for any other storage
\* type or driver the three fields are left as in the source.
C15_DriverDefaults ==
    DriverLoadedOk =>
      LET src == Elems(files[SrcLocal].doc.Databases)
          got == Elems(doc[1].Databases)
          Filled(j, m, def) == IF IsSqlServerRecord(j) /\ Unset(m) THEN Ptr(def) ELSE m
      IN  /\ Len(got) = Len(src)
          /\ \A i \in 1..Len(src) :
                /\ got[i].IdentityQuery = Filled(src[i], src[i].IdentityQuery, S_ScopeIdentity)
                /\ got[i].DateFunction = Filled(src[i], src[i].DateFunction, S_GetDate)
                /\ got[i].UTCDateFunction =
                     Filled(src[i], src[i].UTCDateFunction, S_GetUTCDate)

\* a record with driver "SqlServer", no StorageType and no IdentityQuery was
\* loaded by the load of unnamed/part_006 and received the identity query
C15_Witness ==
    /\ DriverLoadedOk
    /\ lastOp = "LoadPart006"
    /\ Len(Elems(doc[1].Databases)) = 1
    /\ Elems(files[SrcLocal].doc.Databases)[1].DriverName = Ptr(S_SqlServer)
    /\ Elems(files[SrcLocal].doc.Databases)[1].StorageType = Nil
    /\ Elems(files[SrcLocal].doc.Databases)[1].IdentityQuery = Nil
    /\ Elems(doc[1].Databases)[1].IdentityQuery = Ptr(S_ScopeIdentity)

\* the optional top-level members and the optional members of a database
\* record other than StorageType keep a supplied non-empty value
SuppliedOptionalsKept ==
    LET j == SourceDoc
        c == doc[1]
        src == Elems(j.Databases)
        got == Elems(c.Databases)
        Kept(m, v) == (m # Nil /\ m # Ptr(<<>>)) => v = m
        KeptText(m, v) == (m # Nil /\ m # Ptr(<<>>)) => v = m[1]
    IN  /\ Kept(j.DefaultDatabaseID, c.DefaultDatabaseID)
        /\ Kept(j.DefaultEndpointID, c.DefaultEndpointID)
        /\ Kept(j.DefaultNotificationID, c.DefaultNotificationID)
        /\ Kept(j.CookieDomain, c.CookieDomain)
        /\ Kept(j.JWTSecret, c.JWTSecret)
        /\ Len(got) = Len(src)
        /\ \A i \in 1..Len(src) :
              /\ Kept(src[i].GroupID, got[i].GroupID)
              /\ KeptText(src[i].ID, got[i].ID)
              /\ KeptText(src[i].ConnectionString, got[i].ConnectionString)
              /\ KeptText(src[i].ParameterPlaceholder, got[i].ParameterPlaceholder)
              /\ src[i].InterpolateTables # Nil =>
                   got[i].InterpolateTables = src[i].InterpolateTables
              /\ Kept(src[i].StringEnclosingChar, got[i].StringEnclosingChar)
              /\ Kept(src[i].StringEscapeChar, got[i].StringEscapeChar)
              /\ Kept(src[i].ReservedWordEscapeChar, got[i].ReservedWordEscapeChar)

\* C16 as stated: every top-level and per-database field that is present and
\* non-empty in the JSON has exactly that value on the loaded document,
\* StorageType and FileName included.
C16_SuppliedValuesKept ==
    LoadedOk =>
      /\ SuppliedOptionalsKept
      /\ (SourceDoc.FileName # Nil /\ SourceDoc.FileName # Ptr(<<>>)) =>
           doc[1].FileName = SourceDoc.FileName[1]
      /\ \A i \in 1..Len(Elems(SourceDoc.Databases)) :
            LET m == Elems(SourceDoc.Databases)[i].StorageType
            IN  (m # Nil /\ m # Ptr(<<>>)) => Elems(doc[1].Databases)[i].StorageType = m[1]

\* C16 (amended): every supplied non-empty field keeps its value, except that
\* a supplied StorageType is replaced by its upper-case form and FileName is
\* the source string given to load whatever the JSON carries.
C16_SuppliedValuesKeptExcept ==
    LoadedOk =>
      /\ SuppliedOptionalsKept
      /\ doc[1].FileName = lastKey
      /\ \A i \in 1..Len(Elems(SourceDoc.Databases)) :
            LET m == Elems(SourceDoc.Databases)[i].StorageType
            IN  (m # Nil /\ m # Ptr(<<>>)) =>
                  Elems(doc[1].Databases)[i].StorageType = ToUpper(m[1])

\* a document that supplies CookieDomain, JWTSecret and a FileName other than
\* its source was loaded
C16_Witness ==
    /\ LoadedOk
    /\ SourceDoc.CookieDomain = Ptr(S_a)
    /\ SourceDoc.JWTSecret = Ptr(S_a)
    /\ SourceDoc.FileName = Ptr(S_f)
    /\ doc[1].CookieDomain = Ptr(S_a)
    /\ doc[1].FileName = lastKey

\* C17: defaulting is idempotent and deterministic: a successful load of a
\* source that was loaded successfully just before (the same bytes), or of a
\* source that holds the serialized form of the already default-filled
\* document, returns a document equal to the one held.
C17_IdempotentDefaulting ==
    [][(/\ lastOp \in {"Load", "Reserialize"}
        /\ lastErr = ErrNone
        /\ doc # Nil
        /\ lastOp' = "Load"
        /\ lastKey' = lastKey
        /\ lastErr' = ErrNone)
       => doc' = doc]_vars

\* the serialized form of a default-filled document with two synthesized
\* notification IDs was loaded again
C17_Witness ==
    /\ LoadedOk
    /\ OriginBytes(doc[1]) = Marshal(doc[1])
    /\ Len(Elems(doc[1].Notifications)) = 2
    /\ Elems(doc[1].Notifications)[1].ID = S_DEFAULT
    /\ Elems(doc[1].Notifications)[2].ID = S_DEFAULT1

\* the bytes now held by source s
SourceBytes(s) == IF IsRemoteSource(s) THEN web[s] ELSE files[s]

\* the document load holds before it decodes anything: only the locality
\* flag is set, from the prefix of the source
UnpopulatedDoc(s) == [ZeroConfiguration EXCEPT !.local = ~IsRemoteSource(s)]

\* C18: when the fetch of the source fails, load returns the fetch error
\* together with a non-nil document whose locality flag is set from the
\* source prefix and in which no section is populated and no default applied.
C18_FetchFailure ==
    (lastOp = "Load" /\ SourceBytes(lastKey) = Absent)
    => /\ lastErr = ErrFetch
       /\ doc # Nil
       /\ doc = Ptr(UnpopulatedDoc(lastKey))

\* both kinds of source were loaded while unreadable: a missing local file
\* gave a local document, and this state is a failed HTTP request
C18_Witness ==
    /\ lastOp = "Load"
    /\ IsRemoteSource(lastKey)
    /\ SourceBytes(lastKey) = Absent
    /\ lastErr = ErrFetch
    /\ doc # Nil
    /\ ~doc[1].local

\* C19: when the fetch succeeds but yields zero bytes, load fails with
\* ErrNoDataFromSource, which is neither a fetch nor a parse error, and the
\* document it returns was neither decoded into nor default-filled.
C19_NoData ==
    (lastOp = "Load" /\ SourceBytes(lastKey) = NoBytes)
    => /\ lastErr = ErrNoDataFromSource
       /\ lastErr \notin {ErrNone, ErrFetch, ErrParse}
       /\ doc = Ptr(UnpopulatedDoc(lastKey))

\* an empty source was loaded
C19_Witness ==
    /\ lastOp = "Load"
    /\ SourceBytes(lastKey) = NoBytes
    /\ lastErr = ErrNoDataFromSource

\* C20: when the fetched bytes are non-empty but are not a valid JSON object
\* for the document, load returns a nil document together with the parse
\* error.
C20_ParseFailure ==
    (lastOp = "Load" /\ SourceBytes(lastKey) = BadBytes)
    => /\ doc = Nil
       /\ lastErr = ErrParse

\* a source holding malformed bytes was loaded
C20_Witness ==
    /\ lastOp = "Load"
    /\ SourceBytes(lastKey) = BadBytes
    /\ doc = Nil
    /\ lastErr = ErrParse

\* C21: the locality flag of the document Load returns is true exactly when
\* the source starts with neither "http://" nor "https://", and no Save,
\* Reload or lookup made on the document afterwards changes it.
C21_LocalityFixed ==
    [][/\ (lastOp' = "Load" /\ doc' # Nil) => (doc'[1].local <=> ~IsRemoteSource(lastKey'))
       /\ (lastOp' # "Load" /\ doc # Nil) => (doc' # Nil /\ doc'[1].local = doc[1].local)
      ]_vars

\* a document loaded from a URL was reloaded and is still remote
C21_Witness ==
    /\ lastOp = "Reload"
    /\ doc # Nil
    /\ IsRemoteSource(doc[1].FileName)
    /\ ~doc[1].local

\* the flag whose value the last conversion read
ConvertedFlag == Flag(doc[1], lastKey)

\* the trimmed text is no integer numeral of any base, or is one that does not
\* fit 64 bits
NotAnInt64(t) ==
    \/ t = <<>>
    \/ /\ ~IsDigits(Unsigned(t))
       /\ Unsigned(t) # <<>> => Head(Unsigned(t)) # "0"
       /\ \A i \in 1..Len(t) : t[i] # "_"
    \/ /\ IsDigits(Unsigned(t))
       /\ Len(StripLeadingZeros(Unsigned(t))) > Len(S_MaxInt64)

\* the trimmed text is no floating-point numeral, or is one beyond the
\* float32 range
NotAFloat32(t) ==
    \/ t = <<>>
    \/ \E i \in 1..Len(t) : t[i] \notin FloatLiteralChars
    \/ t = S_1e39

\* C22: a typed conversion of a flag value never fails; a value that cannot
\* be parsed as the requested type yields the zero value of that type, and
\* an absent value yields the zero value too (a nil pointer or a pointer to
\* the zero value).
C22_ConversionYieldsZero ==
    LET f == ConvertedFlag
        t == IF f.Value = Nil THEN <<>> ELSE TrimSpace(f.Value[1])
        ZeroFor(bad, zero) ==
            /\ f.Value = Nil => (result = Nil \/ result = Ptr(zero))
            /\ (f.Value # Nil /\ bad) => result = Ptr(zero)
    IN  /\ lastOp = "Bool" =>
             ZeroFor(ToLower(t) \notin {S_1, S_on, S_yes, S_enabled, S_true}, FALSE)
        /\ lastOp \in {"Int64", "Int"} => ZeroFor(NotAnInt64(t), IntZero)
        /\ lastOp \in {"Float", "Float64"} => ZeroFor(NotAFloat32(t), FloatZero)
        /\ lastOp = "String" => result = f.Value
        /\ lastOp \in {"Bool", "Int64", "Int", "Float", "Float64", "String"} => ~panicked

\* C23: every Get* accessor completes with a record or a not-found result and
\* never faults, for every key and every document reached by Load and caller
\* mutation, a document whose DefaultEndpointID or DefaultNotificationID was
\* set to absent and a non-empty key included.
C23_AccessorsNeverFault ==
    lastOp \in {"GetDatabaseInfo", "GetDatabaseInfoGroup", "GetEndpointInfoGroup",
                "GetEndpointInfo", "GetNotificationInfo"}
    => ~panicked

\* the first record of recs whose name (Name or ID, as given by names) equals
\* k ignoring letter case, or not-found
FirstNamed(recs, names, k) ==
    LET hits == {i \in 1..Len(recs) : EqualFold(names[i], k)}
    IN  IF hits = {} THEN Nil ELSE Ptr(recs[MinOf(hits)])

\* the records the last section lookup searched and their names
SearchedSection ==
    IF lastOp = "GetDomainInfo" THEN Elems(doc[1].Domains)
    ELSE IF lastOp = "GetSourceInfo" THEN Elems(doc[1].Sources)
    ELSE Elems(doc[1].OAuths)

SearchedNames ==
    LET recs == SearchedSection
    IN  [i \in 1..Len(recs) |-> IF lastOp = "GetDomainInfo" THEN recs[i].Name ELSE recs[i].ID]

IsSectionLookup == lastOp \in {"GetDomainInfo", "GetSourceInfo", "GetOAuthInfo"}

\* C24 as stated: for every key, the empty key included, the three accessors
\* return the first record in document order whose Name/ID equals the key
\* ignoring letter case, and not-found exactly when there is none.
C24_SectionLookupAnyKey ==
    IsSectionLookup => result = FirstNamed(SearchedSection, SearchedNames, lastKey)

\* C24 (amended): for every non-empty key the three accessors return the
\* first record in document order whose Name/ID equals the key ignoring
\* letter case, and not-found when there is none; for the empty key they
\* return not-found even when a record has an empty Name/ID.
C24_SectionLookup ==
    IsSectionLookup =>
      result = IF lastKey = <<>> THEN Nil
               ELSE FirstNamed(SearchedSection, SearchedNames, lastKey)

\* two sources whose IDs differ only in letter case were searched with the
\* spelling of the second, and the first was returned
C24_Witness ==
    /\ lastOp = "GetSourceInfo"
    /\ lastKey = S_a
    /\ Len(Elems(doc[1].Sources)) = 2
    /\ Elems(doc[1].Sources)[1] = [ID |-> S_A, Type |-> <<>>]
    /\ Elems(doc[1].Sources)[2] = [ID |-> S_a, Type |-> S_x]
    /\ result = Ptr(Elems(doc[1].Sources)[1])

\* C25: a Save step, whether it returns nil or an error, leaves every field
\* of the in-memory document as it was.
C25_SaveKeepsDocument == [][lastOp' = "Save" => doc' = doc]_vars

\* Save has written the file of a document that holds a database record
C25_Witness ==
    /\ lastOp = "Save"
    /\ wrote
    /\ lastErr = ErrNone
    /\ doc # Nil
    /\ GetDatabaseInfo(doc[1], S_Main) # Nil

\* C26: after a successful load from source S, in the LoadConfig revision and
\* in the Load revision, the document's FileName equals S whatever FileName
\* member the JSON document carries.
C26_FileNameIsSource ==
    (lastOp \in {"Load", "LoadConfig"} /\ lastErr = ErrNone /\ doc # Nil)
      => doc[1].FileName = lastKey

\* the same for the Load revision alone
C26_FileNameIsSourceLoad ==
    (lastOp = "Load" /\ lastErr = ErrNone /\ doc # Nil) => doc[1].FileName = lastKey

\* C27: Flag(k) returns a stored flag whose key equals the trimmed k ignoring
\* letter case whenever there is one, also for keys holding both an
\* underscore and a dash; the not-found result is returned only when no
\* stored key equals k.
C27_FlagFindsExactKey ==
    lastOp = "Flag" =>
      LET fs == StoredFlags(doc[1])
          k == TrimSpace(lastKey)
          exact == {i \in 1..Len(fs) : EqualFold(fs[i].Key, k)}
      IN  exact # {} => \E i \in exact : result = Ptr(fs[i])

\* C28: after a successful load, every notification record that received a
\* synthesized ID is the record GetNotificationInfo returns for that ID: no
\* earlier record of the document has the same ID ignoring letter case.
C28_SynthesizedIDFindsItsRecord ==
    LoadedOk =>
      LET src == Elems(SourceDoc.Notifications)
          nfs == Elems(doc[1].Notifications)
      IN  \A i \in 1..Len(nfs) :
             src[i].ID \in {Nil, Ptr(<<>>)} =>
               /\ GetNotificationInfo(doc[1], nfs[i].ID).ret = Ptr(nfs[i])
               /\ \A j \in 1..(i - 1) : ~EqualFold(nfs[j].ID, nfs[i].ID)

\* the endpoints of the document that the last call should have reported:
\* those whose ID equals the key ignoring letter case, or those of the group
MatchingEndpoints ==
    LET eps == Elems(doc[1].APIEndpoints)
        Wanted(v) == IF lastOp = "GetEndpointInfoGroup"
                     THEN v.GroupID = Ptr(lastKey)
                     ELSE lastKey # <<>> /\ EqualFold(v.ID, lastKey)
    IN  SelectSeq(eps, Wanted)

\* C29: in the LoadConfig revision GetEndpointAddress, GetEndpointInfo and
\* GetEndpointInfoGroup never fault, return the empty result when the
\* APIEndpoints collection is absent, and return a non-empty result when it
\* is present and holds a matching endpoint.
C29_EndpointAccessorsLoadConfig ==
    lastOp \in {"GetEndpointAddress", "GetEndpointInfo", "GetEndpointInfoGroup"} =>
      /\ ~panicked
      /\ doc[1].APIEndpoints = Nil =>
           result = IF lastOp = "GetEndpointInfoGroup" THEN Ptr(<<>>) ELSE <<>>
      /\ (lastOp = "GetEndpointInfo" /\ MatchingEndpoints # <<>>) =>
           result = Ptr(MatchingEndpoints[1])
      /\ (lastOp = "GetEndpointInfoGroup" /\ doc[1].APIEndpoints # Nil) =>
           result = Ptr(MatchingEndpoints)

\* C30: in the value-typed LoadConfig revision, after a successful load every
\* database of config.Databases has non-empty StringEnclosingChar,
\* StringEscapeChar and ReservedWordEscapeChar and an upper-case StorageType,
\* and a record that omits StorageType and has driver sqlserver or mssql has
\* IdentityQuery, DateFunction and UTCDateFunction defaulted.
C30_DefaultsStoredOnDocument ==
    (/\ lastOp = "LoadConfigPart002"
     /\ lastErr = ErrNone
     /\ doc # Nil
     /\ lastKey = SrcLocal
     /\ files[SrcLocal].kind = "json")
    => LET src == Elems(files[SrcLocal].doc.Databases)
           dbs == doc[1].Databases
       IN  /\ Len(dbs) = Len(src)
           /\ \A i \in 1..Len(dbs) :
                /\ dbs[i].StringEnclosingChar # <<>>
                /\ dbs[i].StringEscapeChar # <<>>
                /\ dbs[i].ReservedWordEscapeChar # <<>>
                /\ IsUpperCase(dbs[i].StorageType)
                /\ (/\ Unset(src[i].StorageType)
                    /\ ToLower(StrOf(src[i].DriverName)) \in {S_sqlserver, S_mssql})
                   => /\ dbs[i].IdentityQuery # <<>>
                      /\ dbs[i].DateFunction # <<>>
                      /\ dbs[i].UTCDateFunction # <<>>

====
